---------------------------- MODULE Spec2Model ----------------------------
(***************************************************************************)
(* Responsible-AI assessment toolkit (ia_src.rai): the six principle       *)
(* evaluators, the AIA aggregation, the orchestrator's routing and the     *)
(* lifecycle checkpoint tracker, as state machines over the agents'        *)
(* shared Context.                                                         *)
(***************************************************************************)
EXTENDS Integers, Sequences, FiniteSets, TLC

(***************************************************************************)
(* Python floats.  A score is an IEEE-754 double.  Every double the        *)
(* program computes lies in (-8, 8) and is a multiple of 2^-63, so a       *)
(* double is held exactly as sign and magnitude, the magnitude in units of *)
(* 2^-63 written as three 22-bit limbs <<hi, mid, lo>> (TLC integers are   *)
(* 32 bits wide).  Each operation computes the exact result and rounds it  *)
(* to 53 significant bits, ties to even, as the hardware does.             *)
(***************************************************************************)
LimbBase == 2^22

MantissaFreeBits == 9   \* a 53-bit value fills the low 9 bits of the top limb

Pow2(k) == 2^k

MagZero == <<0, 0, 0>>

MagLt(x, y) ==
    \/ x[1] < y[1]
    \/ x[1] = y[1] /\ x[2] < y[2]
    \/ x[1] = y[1] /\ x[2] = y[2] /\ x[3] < y[3]

MagAdd(x, y) ==
    LET lo  == x[3] + y[3]
        mid == x[2] + y[2] + (lo \div LimbBase)
        hi  == x[1] + y[1] + (mid \div LimbBase)
    IN  <<hi, mid % LimbBase, lo % LimbBase>>

\* x - y for magnitudes with y <= x
MagSub(x, y) ==
    LET lo  == x[3] - y[3]
        bl  == IF lo < 0 THEN 1 ELSE 0
        mid == x[2] - y[2] - bl
        bm  == IF mid < 0 THEN 1 ELSE 0
        hi  == x[1] - y[1] - bm
    IN  <<hi, mid + bm * LimbBase, lo + bl * LimbBase>>

\* number of significant bits of the top limb
BitLen(a) == IF a = 0 THEN 0 ELSE CHOOSE k \in 1..24 : Pow2(k - 1) <= a /\ a < Pow2(k)

\* round an exact magnitude to 53 significant bits, ties to even; sticky
\* says that the exact value has further non-zero bits below the last limb
MagRound(x, sticky) ==
    LET s == BitLen(x[1]) - MantissaFreeBits
    IN  IF s <= 0 THEN x
        ELSE LET low  == x[3] % Pow2(s)
                 half == Pow2(s - 1)
                 odd  == (x[3] \div Pow2(s)) % 2 = 1
                 up   == \/ low > half
                         \/ low = half /\ (sticky \/ odd)
                 down == <<x[1], x[2], x[3] - low>>
             IN  IF up THEN MagAdd(down, <<0, 0, Pow2(s)>>) ELSE down

\* exact product of a magnitude and a small natural number
MagMulInt(x, n) ==
    LET lo  == x[3] * n
        mid == x[2] * n + (lo \div LimbBase)
        hi  == x[1] * n + (mid \div LimbBase)
    IN  <<hi, mid % LimbBase, lo % LimbBase>>

\* floor of a magnitude divided by a small positive integer, and whether
\* the division left a remainder
MagDivInt(x, n) ==
    LET hi  == x[1] \div n
        r1  == x[1] % n
        c2  == r1 * LimbBase + x[2]
        mid == c2 \div n
        r2  == c2 % n
        c3  == r2 * LimbBase + x[3]
        lo  == c3 \div n
    IN  [q |-> <<hi, mid, lo>>, inexact |-> (c3 % n) # 0]

Float(negative, mag) == [neg |-> negative /\ mag # MagZero, m |-> mag]

FInt(k) == Float(k < 0, <<(IF k < 0 THEN -k ELSE k) * Pow2(19), 0, 0>>)

FNeg(x) == Float(~x.neg, x.m)

FAbs(x) == Float(FALSE, x.m)

FAdd(x, y) ==
    IF x.neg = y.neg
    THEN Float(x.neg, MagRound(MagAdd(x.m, y.m), FALSE))
    ELSE IF MagLt(x.m, y.m)
         THEN Float(y.neg, MagRound(MagSub(y.m, x.m), FALSE))
         ELSE Float(x.neg, MagRound(MagSub(x.m, y.m), FALSE))

FSub(x, y) == FAdd(x, FNeg(y))

FMulInt(x, n) == Float(x.neg, MagRound(MagMulInt(x.m, n), FALSE))

FDivInt(x, n) ==
    LET d == MagDivInt(x.m, n)
    IN  Float(x.neg, MagRound(d.q, d.inexact))

FLt(x, y) ==
    IF x.neg # y.neg THEN x.neg
    ELSE IF x.neg THEN MagLt(y.m, x.m) ELSE MagLt(x.m, y.m)

FGe(x, y) == ~FLt(x, y)

FMax(x, y) == IF FLt(x, y) THEN y ELSE x

FMin(x, y) == IF FLt(y, x) THEN y ELSE x

\* the double nearest to the decimal literal h / 100, as the Python parser
\* reads a literal such as 0.15
Dec(h) == FDivInt(FInt(h), 100)

(***************************************************************************)
(* Python strings.  A str is the sequence of its characters, so that       *)
(* lower() and the "in" substring test are computed, not assumed.  None    *)
(* and "" are both the empty sequence: the program only ever tests a       *)
(* string-or-None field for truth before it looks inside.                  *)
(***************************************************************************)
UpperCase == <<"A", "B", "C", "D", "E", "F", "G", "H", "I", "J", "K", "L", "M", "N", "O", "P", "Q", "R", "S", "T", "U", "V", "W", "X", "Y", "Z">>

LowerCase == <<"a", "b", "c", "d", "e", "f", "g", "h", "i", "j", "k", "l", "m", "n", "o", "p", "q", "r", "s", "t", "u", "v", "w", "x", "y", "z">>

LowerChar(c) ==
    IF \E i \in 1..26 : UpperCase[i] = c
    THEN LowerCase[CHOOSE i \in 1..26 : UpperCase[i] = c]
    ELSE c

\* str.lower()
Lower(s) == [i \in 1..Len(s) |-> LowerChar(s[i])]

\* needle in hay
Contains(hay, needle) ==
    \E i \in 0..(Len(hay) - Len(needle)) :
        \A j \in 1..Len(needle) : hay[i + j] = needle[j]

\* any(k in s for k in keywords)
ContainsAny(s, keywords) == \E i \in 1..Len(keywords) : Contains(s, keywords[i])

\* any(any(k in x.lower() for k in keywords) for x in items)
AnyItemContains(items, keywords) ==
    \E n \in 1..Len(items) : ContainsAny(Lower(items[n]), keywords)

\* the six principle names, in the order RAIRunner registers the agents
Principles == <<"accountability", "transparency", "fairness", "security", "robustness", "alignment">>

\* Principle.value as characters, for the substring tests on messages
PrincipleChars ==
    [p \in {Principles[i] : i \in 1..6} |->
        CASE p = "accountability" -> <<"a", "c", "c", "o", "u", "n", "t", "a", "b", "i", "l", "i", "t", "y">>
          [] p = "transparency" -> <<"t", "r", "a", "n", "s", "p", "a", "r", "e", "n", "c", "y">>
          [] p = "fairness" -> <<"f", "a", "i", "r", "n", "e", "s", "s">>
          [] p = "security" -> <<"s", "e", "c", "u", "r", "i", "t", "y">>
          [] p = "robustness" -> <<"r", "o", "b", "u", "s", "t", "n", "e", "s", "s">>
          [] p = "alignment" -> <<"a", "l", "i", "g", "n", "m", "e", "n", "t">>]

kw_full_assessment == <<"f", "u", "l", "l", " ", "a", "s", "s", "e", "s", "s", "m", "e", "n", "t">>

kw_comprehensive == <<"c", "o", "m", "p", "r", "e", "h", "e", "n", "s", "i", "v", "e">>

kw_aia == <<"a", "i", "a">>

kw_impact_assessment == <<"i", "m", "p", "a", "c", "t", " ", "a", "s", "s", "e", "s", "s", "m", "e", "n", "t">>

kw_lifecycle == <<"l", "i", "f", "e", "c", "y", "c", "l", "e">>

kw_phase == <<"p", "h", "a", "s", "e">>

kw_evaluate == <<"e", "v", "a", "l", "u", "a", "t", "e">>

kw_assess == <<"a", "s", "s", "e", "s", "s">>

kw_recommend == <<"r", "e", "c", "o", "m", "m", "e", "n", "d">>

kw_suggestion == <<"s", "u", "g", "g", "e", "s", "t", "i", "o", "n">>

kw_complete_aia == <<"c", "o", "m", "p", "l", "e", "t", "e", " ", "a", "i", "a">>

kw_section == <<"s", "e", "c", "t", "i", "o", "n">>

kw_report == <<"r", "e", "p", "o", "r", "t">>

kw_generate == <<"g", "e", "n", "e", "r", "a", "t", "e">>

kw_decision == <<"d", "e", "c", "i", "s", "i", "o", "n">>

kw_score == <<"s", "c", "o", "r", "e">>

DefaultVersion == <<"1", ".", "0", ".", "0">>

fairness_terms ==
    << <<"b", "i", "a", "s">>,
       <<"f", "a", "i", "r">>,
       <<"d", "i", "s", "c", "r", "i", "m", "i", "n", "a", "t">>,
       <<"e", "q", "u", "i", "t">>,
       <<"d", "i", "s", "p", "a", "r", "a", "t", "e">> >>

fairness_sensitive_industries ==
    << <<"f", "i", "n", "a", "n", "c", "e">>,
       <<"h", "e", "a", "l", "t", "h", "c", "a", "r", "e">>,
       <<"e", "m", "p", "l", "o", "y", "m", "e", "n", "t">>,
       <<"e", "d", "u", "c", "a", "t", "i", "o", "n">>,
       <<"c", "r", "i", "m", "i", "n", "a", "l", "_", "j", "u", "s", "t", "i", "c", "e">>,
       <<"h", "o", "u", "s", "i", "n", "g">> >>

privacy_regs ==
    << <<"g", "d", "p", "r">>,
       <<"l", "g", "p", "d">>,
       <<"c", "c", "p", "a">>,
       <<"h", "i", "p", "a", "a">>,
       <<"p", "r", "i", "v", "a", "c", "y">> >>

sensitive_types ==
    << <<"p", "e", "r", "s", "o", "n", "a", "l">>,
       <<"p", "i", "i">>,
       <<"h", "e", "a", "l", "t", "h">>,
       <<"f", "i", "n", "a", "n", "c", "i", "a", "l">>,
       <<"b", "i", "o", "m", "e", "t", "r", "i", "c">>,
       <<"l", "o", "c", "a", "t", "i", "o", "n">> >>

high_security_sectors ==
    << <<"h", "e", "a", "l", "t", "h", "c", "a", "r", "e">>,
       <<"f", "i", "n", "a", "n", "c", "e">>,
       <<"g", "o", "v", "e", "r", "n", "m", "e", "n", "t">>,
       <<"d", "e", "f", "e", "n", "s", "e">>,
       <<"c", "r", "i", "t", "i", "c", "a", "l", "_", "i", "n", "f", "r", "a", "s", "t", "r", "u", "c", "t", "u", "r", "e">> >>

high_reliability_sectors ==
    << <<"h", "e", "a", "l", "t", "h", "c", "a", "r", "e">>,
       <<"f", "i", "n", "a", "n", "c", "e">>,
       <<"t", "r", "a", "n", "s", "p", "o", "r", "t", "a", "t", "i", "o", "n">>,
       <<"e", "n", "e", "r", "g", "y">>,
       <<"t", "e", "l", "e", "c", "o", "m", "m", "u", "n", "i", "c", "a", "t", "i", "o", "n", "s">> >>

alignment_sensitive_industries ==
    << <<"h", "e", "a", "l", "t", "h", "c", "a", "r", "e">>,
       <<"c", "r", "i", "m", "i", "n", "a", "l", "_", "j", "u", "s", "t", "i", "c", "e">>,
       <<"e", "m", "p", "l", "o", "y", "m", "e", "n", "t">>,
       <<"c", "r", "e", "d", "i", "t">>,
       <<"h", "o", "u", "s", "i", "n", "g">>,
       <<"e", "d", "u", "c", "a", "t", "i", "o", "n">> >>

(***************************************************************************)
(* SystemProfile.  The fields the agents read.  A list[str] is a sequence  *)
(* of strings; the two Optional[datetime] fields are only tested for       *)
(* truth and are held as booleans.                                         *)
(***************************************************************************)
AISystemType ==
    {"classification", "regression", "generative", "recommendation", "nlp",
     "computer_vision", "autonomous", "multimodal", "other"}

RiskLevel == {"low", "medium", "high", "critical"}

\* LifecyclePhase, in declaration order
LifecyclePhase ==
    <<"business_understanding", "design_data_models", "validation_verification",
      "deployment", "operation_monitoring", "shutdown">>

Phases == {LifecyclePhase[i] : i \in 1..Len(LifecyclePhase)}

desc_one_char == <<"Y">>

desc_test == <<"A", " ", "c", "o", "m", "p", "r", "e", "h", "e", "n", "s", "i", "v", "e", " ", "t", "e", "s", "t", " ", "A", "I", " ", "s", "y", "s", "t", "e", "m", " ", "f", "o", "r", " ", "v", "a", "l", "i", "d", "a", "t", "i", "o", "n">>

desc_long == <<"P", "r", "e", "d", "i", "c", "t", "s", " ", "c", "u", "s", "t", "o", "m", "e", "r", " ", "c", "h", "u", "r", "n", " ", "f", "r", "o", "m", " ", "h", "i", "s", "t", "o", "r", "i", "c", "a", "l", " ", "u", "s", "a", "g", "e", " ", "d", "a", "t", "a", " ", "f", "o", "r", " ", "r", "e", "t", "e", "n", "t", "i", "o", "n", " ", "t", "e", "a", "m", "s">>

desc_decision == <<"S", "u", "p", "p", "o", "r", "t", "s", " ", "l", "o", "a", "n", " ", "a", "p", "p", "r", "o", "v", "a", "l", " ", "D", "e", "c", "i", "s", "i", "o", "n", "s", " ", "b", "y", " ", "r", "a", "n", "k", "i", "n", "g", " ", "a", "p", "p", "l", "i", "c", "a", "n", "t", "s", " ", "f", "o", "r", " ", "m", "a", "n", "u", "a", "l", " ", "r", "e", "v", "i", "e", "w">>

desc_score == <<"C", "r", "e", "d", "i", "t", " ", "s", "c", "o", "r", "e", " ", "m", "o", "d", "e", "l">>

\* the values an input profile may take in each field
FieldValues ==
    [ description |->
          {desc_one_char, desc_test, desc_long, desc_decision, desc_score},
      version |->
          {DefaultVersion, <<"2", ".", "1", ".", "0">>},
      system_type |->
          AISystemType,
      risk_level |->
          RiskLevel,
      is_high_risk_eu_ai_act |->
          BOOLEAN,
      model_architecture |->
          {<<>>, <<"X", "G", "B", "o", "o", "s", "t">>},
      training_data_description |->
          {<<>>, <<"H", "i", "s", "t", "o", "r", "i", "c", "a", "l", " ", "d", "a", "t", "a", " ", "f", "r", "o", "m", " ", "2", "0", "2", "0", "-", "2", "0", "2", "3">>, <<"P", "e", "r", "s", "o", "n", "a", "l", " ", "h", "e", "a", "l", "t", "h", " ", "r", "e", "c", "o", "r", "d", "s">>},
      input_data_types |->
          {<<>>, <<<<"t", "e", "x", "t">>>>, <<<<"t", "a", "b", "u", "l", "a", "r">>, <<"F", "i", "n", "a", "n", "c", "i", "a", "l", " ", "r", "e", "c", "o", "r", "d", "s">>>>},
      output_data_types |->
          {<<>>, <<<<"l", "a", "b", "e", "l">>>>},
      owner |->
          {<<>>, <<"T", "e", "s", "t", " ", "T", "e", "a", "m">>},
      developers |->
          {<<>>, <<<<"D", "e", "v", " ", "T", "e", "a", "m">>>>},
      operators |->
          {<<>>, <<<<"O", "p", "s", " ", "T", "e", "a", "m">>>>},
      affected_populations |->
          {<<>>, <<<<"u", "s", "e", "r", "s">>, <<"c", "u", "s", "t", "o", "m", "e", "r", "s">>>>},
      current_phase |->
          Phases,
      deployment_date |->
          BOOLEAN,
      last_assessment_date |->
          BOOLEAN,
      applicable_regulations |->
          {<<>>, <<<<"G", "D", "P", "R">>, <<"E", "U", " ", "A", "I", " ", "A", "c", "t">>>>, <<<<"E", "U", " ", "A", "I", " ", "A", "c", "t">>>>},
      industry_sector |->
          {<<>>, <<"H", "e", "a", "l", "t", "h", "c", "a", "r", "e">>, <<"f", "i", "n", "a", "n", "c", "e">>, <<"c", "r", "e", "d", "i", "t">>, <<"g", "o", "v", "e", "r", "n", "m", "e", "n", "t">>, <<"e", "n", "e", "r", "g", "y">>, <<"r", "e", "t", "a", "i", "l">>},
      use_cases |->
          {<<>>, <<<<"T", "e", "s", "t", "i", "n", "g">>>>},
      known_limitations |->
          {<<>>, <<<<"M", "a", "y", " ", "u", "n", "d", "e", "r", "p", "e", "r", "f", "o", "r", "m", " ", "o", "n", " ", "e", "d", "g", "e", " ", "c", "a", "s", "e", "s">>>>, <<<<"P", "o", "s", "s", "i", "b", "l", "e", " ", "B", "i", "a", "s", " ", "a", "g", "a", "i", "n", "s", "t", " ", "m", "i", "n", "o", "r", "i", "t", "i", "e", "s">>>>},
      prohibited_uses |->
          {<<>>, <<<<"S", "u", "r", "v", "e", "i", "l", "l", "a", "n", "c", "e">>>>} ]

ProfileFields == DOMAIN FieldValues

\* only the required fields, every optional field at its default: the worst case of spec section 8
MinimalProfile ==
    [ description |-> desc_one_char,
      version |-> DefaultVersion,
      system_type |-> "autonomous",
      risk_level |-> "low",
      is_high_risk_eu_ai_act |-> TRUE,
      model_architecture |-> <<>>,
      training_data_description |-> <<>>,
      input_data_types |-> <<>>,
      output_data_types |-> <<>>,
      owner |-> <<"X">>,
      developers |-> <<>>,
      operators |-> <<>>,
      affected_populations |-> <<>>,
      current_phase |-> "business_understanding",
      deployment_date |-> FALSE,
      last_assessment_date |-> FALSE,
      applicable_regulations |-> <<>>,
      industry_sector |-> <<>>,
      use_cases |-> <<>>,
      known_limitations |-> <<>>,
      prohibited_uses |-> <<>> ]

\* the profile of test_orchestrator
TestProfile ==
    [ description |-> desc_test,
      version |-> DefaultVersion,
      system_type |-> "classification",
      risk_level |-> "high",
      is_high_risk_eu_ai_act |-> TRUE,
      model_architecture |-> <<"X", "G", "B", "o", "o", "s", "t">>,
      training_data_description |-> <<"H", "i", "s", "t", "o", "r", "i", "c", "a", "l", " ", "d", "a", "t", "a", " ", "f", "r", "o", "m", " ", "2", "0", "2", "0", "-", "2", "0", "2", "3">>,
      input_data_types |-> <<>>,
      output_data_types |-> <<>>,
      owner |-> <<"T", "e", "s", "t", " ", "T", "e", "a", "m">>,
      developers |-> <<<<"D", "e", "v", " ", "T", "e", "a", "m">>>>,
      operators |-> <<<<"O", "p", "s", " ", "T", "e", "a", "m">>>>,
      affected_populations |-> <<<<"u", "s", "e", "r", "s">>, <<"c", "u", "s", "t", "o", "m", "e", "r", "s">>>>,
      current_phase |-> "business_understanding",
      deployment_date |-> FALSE,
      last_assessment_date |-> FALSE,
      applicable_regulations |-> <<<<"G", "D", "P", "R">>, <<"E", "U", " ", "A", "I", " ", "A", "c", "t">>>>,
      industry_sector |-> <<>>,
      use_cases |-> <<>>,
      known_limitations |-> <<<<"M", "a", "y", " ", "u", "n", "d", "e", "r", "p", "e", "r", "f", "o", "r", "m", " ", "o", "n", " ", "e", "d", "g", "e", " ", "c", "a", "s", "e", "s">>>>,
      prohibited_uses |-> <<>> ]

\* a fully documented low-concern system: no check of any evaluator fires
DocumentedProfile ==
    [ description |-> desc_long,
      version |-> <<"2", ".", "1", ".", "0">>,
      system_type |-> "regression",
      risk_level |-> "medium",
      is_high_risk_eu_ai_act |-> FALSE,
      model_architecture |-> <<"X", "G", "B", "o", "o", "s", "t">>,
      training_data_description |-> <<"H", "i", "s", "t", "o", "r", "i", "c", "a", "l", " ", "d", "a", "t", "a", " ", "f", "r", "o", "m", " ", "2", "0", "2", "0", "-", "2", "0", "2", "3">>,
      input_data_types |-> <<<<"t", "e", "x", "t">>>>,
      output_data_types |-> <<<<"l", "a", "b", "e", "l">>>>,
      owner |-> <<"T", "e", "s", "t", " ", "T", "e", "a", "m">>,
      developers |-> <<<<"D", "e", "v", " ", "T", "e", "a", "m">>>>,
      operators |-> <<<<"O", "p", "s", " ", "T", "e", "a", "m">>>>,
      affected_populations |-> <<<<"u", "s", "e", "r", "s">>, <<"c", "u", "s", "t", "o", "m", "e", "r", "s">>>>,
      current_phase |-> "validation_verification",
      deployment_date |-> FALSE,
      last_assessment_date |-> FALSE,
      applicable_regulations |-> <<<<"G", "D", "P", "R">>, <<"E", "U", " ", "A", "I", " ", "A", "c", "t">>>>,
      industry_sector |-> <<"r", "e", "t", "a", "i", "l">>,
      use_cases |-> <<<<"T", "e", "s", "t", "i", "n", "g">>>>,
      known_limitations |-> <<<<"P", "o", "s", "s", "i", "b", "l", "e", " ", "B", "i", "a", "s", " ", "a", "g", "a", "i", "n", "s", "t", " ", "m", "i", "n", "o", "r", "i", "t", "i", "e", "s">>>>,
      prohibited_uses |-> <<<<"S", "u", "r", "v", "e", "i", "l", "l", "a", "n", "c", "e">>>> ]

\* an undocumented generative system in production in a sensitive sector
DeployedProfile ==
    [ description |-> desc_score,
      version |-> DefaultVersion,
      system_type |-> "generative",
      risk_level |-> "low",
      is_high_risk_eu_ai_act |-> TRUE,
      model_architecture |-> <<>>,
      training_data_description |-> <<"P", "e", "r", "s", "o", "n", "a", "l", " ", "h", "e", "a", "l", "t", "h", " ", "r", "e", "c", "o", "r", "d", "s">>,
      input_data_types |-> <<<<"t", "a", "b", "u", "l", "a", "r">>, <<"F", "i", "n", "a", "n", "c", "i", "a", "l", " ", "r", "e", "c", "o", "r", "d", "s">>>>,
      output_data_types |-> <<>>,
      owner |-> <<>>,
      developers |-> <<>>,
      operators |-> <<>>,
      affected_populations |-> <<>>,
      current_phase |-> "deployment",
      deployment_date |-> TRUE,
      last_assessment_date |-> FALSE,
      applicable_regulations |-> <<<<"E", "U", " ", "A", "I", " ", "A", "c", "t">>>>,
      industry_sector |-> <<"H", "e", "a", "l", "t", "h", "c", "a", "r", "e">>,
      use_cases |-> <<>>,
      known_limitations |-> <<<<"M", "a", "y", " ", "u", "n", "d", "e", "r", "p", "e", "r", "f", "o", "r", "m", " ", "o", "n", " ", "e", "d", "g", "e", " ", "c", "a", "s", "e", "s">>>>,
      prohibited_uses |-> <<>> ]

BaseProfiles == {MinimalProfile, TestProfile, DocumentedProfile, DeployedProfile}

(***************************************************************************)
(* Context: the variables dict of ia_src.core.context.Context, a function  *)
(* from the keys that are set to their values.                             *)
(***************************************************************************)
get_variable(vs, key, default) == IF key \in DOMAIN vs THEN vs[key] ELSE default

set_variable(vs, key, value) == (key :> value) @@ vs

(***************************************************************************)
(* The six principle evaluators.  evaluate() is a fixed sequence of        *)
(* checks; a check that fires appends one Finding and, where the code has  *)
(* a "score -= d" statement, subtracts d (in hundredths here) from the     *)
(* running score.                                                          *)
(***************************************************************************)
Finding(id, sev, rec) == [finding_id |-> id, severity |-> sev, recommendation |-> rec]

Check(cond, id, sev, hundredths, rec) ==
    [fires |-> cond, deduction |-> hundredths, finding |-> Finding(id, sev, rec)]

AccountabilityChecks(p) ==
    << Check(p.owner = <<>>, "-001", "high", 20,
             "Assign a responsible owner for the AI system with clear accountability"),
       Check(p.operators = <<>>, "-002", "medium", 10,
             "Define operational responsibility and operator roles"),
       Check(p.is_high_risk_eu_ai_act /\ p.applicable_regulations = <<>>, "-003", "critical", 30,
             "Document all applicable regulations and establish compliance monitoring"),
       Check(p.affected_populations = <<>>, "-004", "medium", 15,
             "Conduct stakeholder analysis to identify all groups affected by AI decisions"),
       Check(p.known_limitations = <<>>, "-005", "medium", 10,
             "Document known limitations and failure modes for transparency"),
       Check(p.developers = <<>>, "-006", "low", 5,
             "Document development team for accountability and knowledge transfer") >>

TransparencyChecks(p) ==
    << Check(Len(p.description) < 50, "-001", "medium", 10,
             "Provide detailed system description including purpose, functionality, and scope"),
       Check(p.model_architecture = <<>>, "-002", "medium", 15,
             "Document model architecture for technical transparency and auditability"),
       Check(p.training_data_description = <<>>, "-003", "high", 20,
             "Create data sheet documenting training data sources, collection methods, and limitations"),
       Check(p.input_data_types = <<>> \/ p.output_data_types = <<>>, "-004", "medium", 10,
             "Document all input and output data types for operational transparency"),
       Check(p.use_cases = <<>>, "-005", "low", 5,
             "Document intended use cases to clarify system purpose and appropriate use"),
       Check(p.prohibited_uses = <<>>, "-006", "medium", 10,
             "Define and document prohibited uses to prevent misuse"),
       Check(p.version = DefaultVersion, "-007", "low", 5,
             "Implement semantic versioning with change documentation") >>

FairnessChecks(p) ==
    LET has_fairness_limitations == AnyItemContains(p.known_limitations, fairness_terms)
    IN
    << Check(p.affected_populations = <<>>, "-001", "high", 25,
             "Conduct stakeholder analysis to identify all affected groups including vulnerable populations"),
       Check(p.training_data_description = <<>>, "-002", "high", 20,
             "Document training data sources, demographics, and collection methodology"),
       Check(p.system_type \in {"classification", "recommendation", "nlp"} /\ p.risk_level = "low",
             "-003", "medium", 10,
             "Review risk classification considering fairness implications for affected groups"),
       Check(~has_fairness_limitations /\ p.known_limitations # <<>>, "-004", "medium", 10,
             "Document any known fairness limitations or bias risks"),
       Check(p.is_high_risk_eu_ai_act, "-005", "medium", 10,
             "Implement systematic fairness testing with documented metrics and thresholds"),
       Check(p.industry_sector # <<>>
                /\ ContainsAny(Lower(p.industry_sector), fairness_sensitive_industries),
             "-006", "high", 10,
             "Review sector-specific anti-discrimination regulations and implement appropriate controls") >>

SecurityChecks(p) ==
    LET has_privacy_reg == AnyItemContains(p.applicable_regulations, privacy_regs)
        processes_sensitive == AnyItemContains(p.input_data_types, sensitive_types)
    IN
    << Check(~has_privacy_reg /\ p.input_data_types # <<>>, "-001", "high", 20,
             "Identify and document applicable privacy regulations (GDPR, LGPD, CCPA, etc.)"),
       Check(processes_sensitive /\ p.risk_level = "low", "-002", "high", 20,
             "Review risk classification - sensitive data processing typically requires elevated security"),
       Check(p.training_data_description # <<>>
                /\ ContainsAny(Lower(p.training_data_description), sensitive_types),
             "-003", "medium", 10,
             "Verify appropriate consent, anonymization, and data protection measures for training data"),
       Check(p.is_high_risk_eu_ai_act, "-004", "medium", 10,
             "Implement cybersecurity measures per EU AI Act Article 15, including resilience to attacks"),
       Check(p.system_type = "generative", "-005", "medium", 10,
             "Implement input validation, output filtering, and prompt injection defenses"),
       Check(p.industry_sector # <<>>
                /\ ContainsAny(Lower(p.industry_sector), high_security_sectors),
             "-006", "high", 10,
             "Review and implement sector-specific security frameworks and certifications") >>

\* check 7 appends a finding and has no "score -=" statement
RobustnessChecks(p, vs) ==
    << Check(p.known_limitations = <<>>, "-001", "high", 20,
             "Document known limitations, failure modes, and edge cases"),
       Check(p.current_phase \in {"deployment", "operation_monitoring"}
                /\ ~get_variable(vs, "monitoring_configured", FALSE),
             "-002", "high", 20,
             "Implement comprehensive monitoring for performance, drift, and errors"),
       Check(p.version = DefaultVersion, "-003", "low", 5,
             "Implement semantic versioning with documented change history and rollback procedures"),
       Check(p.system_type \in {"autonomous", "generative"}, "-004", "medium", 10,
             "Implement comprehensive testing including adversarial inputs and edge cases"),
       Check(p.is_high_risk_eu_ai_act, "-005", "medium", 10,
             "Document performance metrics and implement continuous performance monitoring per Article 15"),
       Check(p.deployment_date /\ ~p.last_assessment_date, "-006", "medium", 15,
             "Establish regular assessment schedule to detect performance degradation"),
       Check(p.industry_sector # <<>>
                /\ ContainsAny(Lower(p.industry_sector), high_reliability_sectors),
             "-007", "low", 0,
             "Review sector-specific reliability standards and SLA requirements") >>

AlignmentChecks(p) ==
    << Check(p.prohibited_uses = <<>>, "-001", "medium", 15,
             "Define and document prohibited uses to prevent misuse and establish boundaries"),
       Check(p.affected_populations = <<>>, "-002", "high", 20,
             "Identify affected populations and consider their needs in design and operation"),
       Check(p.system_type = "autonomous", "-003", "critical", 25,
             "Implement human-on-the-loop supervision with ability to intervene, stop, or override"),
       Check(p.system_type = "generative", "-004", "high", 15,
             "Implement content filtering, output validation, and user feedback mechanisms"),
       Check(p.is_high_risk_eu_ai_act, "-005", "high", 10,
             "Implement human oversight measures per Article 14, including ability to override AI decisions"),
       Check(p.system_type \in {"classification", "recommendation"}
                /\ (\/ Contains(Lower(p.description), kw_decision)
                    \/ Contains(Lower(p.description), kw_score)),
             "-006", "medium", 10,
             "Ensure affected individuals have right to explanation, appeal, and human review"),
       Check(p.industry_sector # <<>>
                /\ ContainsAny(Lower(p.industry_sector), alignment_sensitive_industries),
             "-007", "high", 10,
             "Review sector-specific ethical guidelines and implement enhanced oversight"),
       Check(p.use_cases = <<>>, "-008", "low", 5,
             "Document intended use cases to ensure system use aligns with intended purpose") >>

\* ScoreAfter with each deduction capped at 0.20
RECURSIVE ScoreAfterCapped(_, _)
ScoreAfterCapped(checks, n) ==
    IF n = 0 THEN FInt(1)
    ELSE LET s == ScoreAfterCapped(checks, n - 1)
         IN  IF checks[n].fires /\ checks[n].deduction # 0
             THEN FSub(s, Dec(IF checks[n].deduction > 20 THEN 20 ELSE checks[n].deduction))
             ELSE s

\* the running score after the first n checks: score = 1.0, then score -= d
RECURSIVE ScoreAfter(_, _)
ScoreAfter(checks, n) ==
    IF n = 0 THEN FInt(1)
    ELSE LET s == ScoreAfter(checks, n - 1)
         IN  IF checks[n].fires /\ checks[n].deduction # 0
             THEN FSub(s, Dec(checks[n].deduction))
             ELSE s

\* the findings list after the first n checks
RECURSIVE FindingsAfter(_, _)
FindingsAfter(checks, n) ==
    IF n = 0 THEN <<>>
    ELSE IF checks[n].fires
         THEN Append(FindingsAfter(checks, n - 1), checks[n].finding)
         ELSE FindingsAfter(checks, n - 1)

\* ClampScore on a five-point scale
ClampScoreOfFive(score) == FMax(FInt(0), FMin(FInt(5), FMulInt(score, 5)))

\* a clamp to [0.3, 1.0]
ClampScoreRaised(score) == FMax(Dec(30), FMin(FInt(1), score))

\* score = max(0.0, min(1.0, score))
ClampScore(score) == FMax(FInt(0), FMin(FInt(1), score))

\* _determine_compliance_status with > for >=
_determine_compliance_status_strict(score) ==
    IF FLt(Dec(90), score) THEN "compliant"
    ELSE IF FLt(Dec(60), score) THEN "partially_compliant"
    ELSE "non_compliant"

_determine_compliance_status(score) ==
    IF FGe(score, Dec(90)) THEN "compliant"
    ELSE IF FGe(score, Dec(60)) THEN "partially_compliant"
    ELSE "non_compliant"

PrincipleEvaluation(principle, score, findings) ==
    [ principle |-> principle,
      compliance_status |-> _determine_compliance_status(score),
      score |-> score,
      findings |-> findings ]

\* the outcomes of one llm_provider.generate call: a reply text, or an
\* exception
LLMRaises == <<"raises">>

\* _llm_analysis with the reply turned into a finding
_llm_analysis_parsed(p, llm) ==
    IF llm = LLMRaises THEN <<>>
    ELSE <<Finding("-LLM", "high", "Establish the governance structure the analysis asks for")>>

\* AccountabilityAgent._llm_analysis: the reply is not parsed
_llm_analysis(p, llm) == IF llm = LLMRaises THEN <<>> ELSE <<>>

CountHighCritical(findings) ==
    Cardinality({i \in 1..Len(findings) : findings[i].severity \in {"high", "critical"}})

\* the LLM step of AccountabilityAgent.evaluate: findings.extend(llm_findings)
\* and score -= 0.05 * (number of high and critical LLM findings)
WithLLMFindings(score, findings, use_llm, llm_findings) ==
    PrincipleEvaluation(
        "accountability",
        ClampScore(IF use_llm
                   THEN FSub(score, FMulInt(Dec(5), CountHighCritical(llm_findings)))
                   ELSE score),
        IF use_llm THEN findings \o llm_findings ELSE findings)

AccountabilityWith(checks, p, use_llm, llm) ==
    WithLLMFindings(ScoreAfter(checks, Len(checks)), FindingsAfter(checks, Len(checks)),
                    use_llm, IF use_llm THEN _llm_analysis(p, llm) ELSE <<>>)

AccountabilityEvaluate(p, vs, llm) ==
    AccountabilityWith(AccountabilityChecks(p), p,
                       get_variable(vs, "enable_llm_analysis", TRUE), llm)

RuleEvaluate(principle, checks) ==
    PrincipleEvaluation(principle,
                        ClampScore(ScoreAfter(checks, Len(checks))),
                        FindingsAfter(checks, Len(checks)))

TransparencyEvaluate(p) == RuleEvaluate("transparency", TransparencyChecks(p))

FairnessEvaluate(p) == RuleEvaluate("fairness", FairnessChecks(p))

SecurityEvaluate(p) == RuleEvaluate("security", SecurityChecks(p))

RobustnessEvaluate(p, vs) == RuleEvaluate("robustness", RobustnessChecks(p, vs))

AlignmentEvaluate(p) == RuleEvaluate("alignment", AlignmentChecks(p))

\* agent.evaluate(system_profile, context) of the agent registered for a principle
Evaluate(principle, p, vs, llm) ==
    CASE principle = "accountability" -> AccountabilityEvaluate(p, vs, llm)
      [] principle = "transparency"   -> TransparencyEvaluate(p)
      [] principle = "fairness"       -> FairnessEvaluate(p)
      [] principle = "security"       -> SecurityEvaluate(p)
      [] principle = "robustness"     -> RobustnessEvaluate(p, vs)
      [] principle = "alignment"      -> AlignmentEvaluate(p)

(***************************************************************************)
(* AIAAgent: the recommendation, the conditions and the compiled report.   *)
(***************************************************************************)
\* sum(e.score for e in evaluations), plain left-to-right float addition
\* (CPython before 3.12)
RECURSIVE NaiveSum(_, _)
NaiveSum(xs, n) == IF n = 0 THEN FInt(0) ELSE FAdd(NaiveSum(xs, n - 1), xs[n])

\* the same sum as CPython 3.12 and later computes it: Neumaier's
\* compensated summation, returning the pair of sum and compensation
\* one round of the loop: t = f_result + x, then the lost low part of the
\* addition goes to the compensation c
NeumaierStep(s, c, x, t) ==
    [ s |-> t,
      c |-> IF ~MagLt(s.m, x.m)
            THEN FAdd(c, FAdd(FSub(s, t), x))
            ELSE FAdd(c, FAdd(FSub(x, t), s)) ]

NeumaierAdd(prev, x) == NeumaierStep(prev.s, prev.c, x, FAdd(prev.s, x))

RECURSIVE NeumaierSum(_, _)
NeumaierSum(xs, n) ==
    IF n = 0 THEN [s |-> FInt(0), c |-> FInt(0)]
    ELSE NeumaierAdd(NeumaierSum(xs, n - 1), xs[n])

\* the compensation is added at the end, when it is not zero
Compensated(r) == IF r.c.m # MagZero THEN FAdd(r.s, r.c) ELSE r.s

\* builtin sum() over floats; which algorithm runs depends on the interpreter
PySum(xs, compensated) ==
    IF compensated THEN Compensated(NeumaierSum(xs, Len(xs))) ELSE NaiveSum(xs, Len(xs))

Scores(evaluations) == [i \in 1..Len(evaluations) |-> evaluations[i].score]

\* min(e.score for e in evaluations), for a non-empty list
RECURSIVE MinScore(_, _)
MinScore(evaluations, n) ==
    IF n = 1 THEN evaluations[1].score
    ELSE FMin(MinScore(evaluations, n - 1), evaluations[n].score)

\* number of findings of the given severities over all evaluations
RECURSIVE CountFindings(_, _, _)
CountFindings(evaluations, n, severities) ==
    IF n = 0 THEN 0
    ELSE CountFindings(evaluations, n - 1, severities)
         + Cardinality({i \in 1..Len(evaluations[n].findings) :
                            evaluations[n].findings[i].severity \in severities})

\* RecommendationRule with the minimum left out of the test for proceed
RecommendationRuleMeanOnly(avg_score, min_score, critical_findings) ==
    IF critical_findings > 0 \/ FLt(min_score, Dec(30)) THEN "do_not_proceed"
    ELSE IF FGe(avg_score, Dec(80)) THEN "proceed"
    ELSE IF FGe(avg_score, Dec(50)) THEN "proceed_with_conditions"
    ELSE "requires_further_assessment"

\* the decision without the count of critical findings
RecommendationRuleScoresOnly(avg_score, min_score, critical_findings) ==
    IF FLt(min_score, Dec(30)) THEN "do_not_proceed"
    ELSE IF FGe(avg_score, Dec(80)) /\ FGe(min_score, Dec(60)) THEN "proceed"
    ELSE IF FGe(avg_score, Dec(50)) THEN "proceed_with_conditions"
    ELSE "requires_further_assessment"

\* the decision, once avg_score, min_score and critical_findings are computed
RecommendationRule(avg_score, min_score, critical_findings) ==
    IF critical_findings > 0 \/ FLt(min_score, Dec(30)) THEN "do_not_proceed"
    ELSE IF FGe(avg_score, Dec(80)) /\ FGe(min_score, Dec(60)) THEN "proceed"
    ELSE IF FGe(avg_score, Dec(50)) THEN "proceed_with_conditions"
    ELSE "requires_further_assessment"

_determine_recommendation(evaluations, compensated) ==
    IF evaluations = <<>> THEN "requires_further_assessment"
    ELSE RecommendationRule(
             FDivInt(PySum(Scores(evaluations), compensated), Len(evaluations)),
             MinScore(evaluations, Len(evaluations)),
             CountFindings(evaluations, Len(evaluations), {"critical"}))

\* f"Address {e.principle.value} gaps before deployment"
AddressGaps(principle) ==
    CASE principle = "accountability" -> "Address accountability gaps before deployment"
      [] principle = "transparency"   -> "Address transparency gaps before deployment"
      [] principle = "fairness"       -> "Address fairness gaps before deployment"
      [] principle = "security"       -> "Address security gaps before deployment"
      [] principle = "robustness"     -> "Address robustness gaps before deployment"
      [] principle = "alignment"      -> "Address alignment gaps before deployment"

\* the recommendations of the high and critical findings among the first n
RECURSIVE HighCriticalRecommendations(_, _)
HighCriticalRecommendations(findings, n) ==
    IF n = 0 THEN <<>>
    ELSE IF findings[n].severity \in {"high", "critical"}
         THEN Append(HighCriticalRecommendations(findings, n - 1), findings[n].recommendation)
         ELSE HighCriticalRecommendations(findings, n - 1)

\* the conditions list after the loop has visited the first n evaluations
RECURSIVE ConditionsAfter(_, _)
ConditionsAfter(evaluations, n) ==
    IF n = 0 THEN <<>>
    ELSE LET e == evaluations[n]
             gap == IF FLt(e.score, Dec(70)) THEN <<AddressGaps(e.principle)>> ELSE <<>>
         IN  ConditionsAfter(evaluations, n - 1) \o gap
                \o HighCriticalRecommendations(e.findings, Len(e.findings))

\* conditions[:5]
FirstFive(xs) == SubSeq(xs, 1, IF Len(xs) < 5 THEN Len(xs) ELSE 5)

\* _determine_conditions without the slice
_determine_conditions_unlimited(evaluations) == ConditionsAfter(evaluations, Len(evaluations))

_determine_conditions(evaluations) == FirstFive(ConditionsAfter(evaluations, Len(evaluations)))

Exception == [kind |-> "exception"]

\* AIAAgent._sections
AIASections == <<"context", "data_model", "impact", "risk_mitigation", "governance", "monitoring">>

SectionKey(i) ==
    CASE i = 1 -> "aia_section_context"
      [] i = 2 -> "aia_section_data_model"
      [] i = 3 -> "aia_section_impact"
      [] i = 4 -> "aia_section_risk_mitigation"
      [] i = 5 -> "aia_section_governance"
      [] i = 6 -> "aia_section_monitoring"

HasProfile(vs) == get_variable(vs, "system_profile", FALSE)

\* AIAReport(...) validates its arguments: the profile and the six sections
\* are required, so a missing one makes the constructor raise
\* the AIAReport built from the evaluations and their recommendation
AIAReport(principle_evaluations, recommendation) ==
    [ kind |-> "AIAReport",
      principle_evaluations |-> principle_evaluations,
      overall_recommendation |-> recommendation,
      conditions_for_approval |-> IF recommendation = "proceed_with_conditions"
                                  THEN _determine_conditions(principle_evaluations)
                                  ELSE <<>> ]

ReportOn(principle_evaluations, compensated) ==
    AIAReport(principle_evaluations,
              _determine_recommendation(principle_evaluations, compensated))

_compile_report(vs, compensated) ==
    IF ~HasProfile(vs) \/ \E i \in 1..6 : ~get_variable(vs, SectionKey(i), FALSE)
    THEN Exception
    ELSE ReportOn(get_variable(vs, "principle_evaluations", <<>>), compensated)

\* the context after _assess_section has run for the first n sections
RECURSIVE WithSections(_, _)
WithSections(vs, n) ==
    IF n = 0 THEN vs ELSE set_variable(WithSections(vs, n - 1), SectionKey(n), TRUE)

Reply(vs, kind) == [vs |-> vs, ret |-> [kind |-> kind]]

\* context.set_variable("aia_report", report) and the reply, or the
\* exception the compilation raised
StoreReport(vs, report, kind) ==
    IF report.kind = "exception" THEN [vs |-> vs, ret |-> Exception]
    ELSE Reply(set_variable(vs, "aia_report", report), kind)

CompileAndStore(vs, compensated, kind) == StoreReport(vs, _compile_report(vs, compensated), kind)

AIA_run_full_assessment(vs, compensated) ==
    IF ~HasProfile(vs) THEN Reply(vs, "error_no_profile")
    ELSE CompileAndStore(WithSections(vs, 6), compensated, "aia_assessment_complete")

(***************************************************************************)
(* Lifecycle checkpoints: the templates, LifecycleStatus and the           *)
(* LifecycleAgent's operations.                                            *)
(***************************************************************************)
\* Python's None, for Optional fields and returns
None == "None"

\* PHASE_CHECKPOINTS: per phase the checkpoint configurations, each with its
\* id, its required artifacts and the ids of its verification criteria
PHASE_CHECKPOINTS ==
    [ phase \in Phases |->
        CASE phase = "business_understanding" ->
              << [ checkpoint_id |-> "BU-001",
                   required_artifacts |-> <<"problem_statement", "success_criteria">>,
                   verification_criteria |-> <<"BU-001-C1", "BU-001-C2", "BU-001-C3">> ],
                 [ checkpoint_id |-> "BU-002",
                   required_artifacts |-> <<"risk_screening_form">>,
                   verification_criteria |-> <<"BU-002-C1", "BU-002-C2">> ] >>
          [] phase = "design_data_models" ->
              << [ checkpoint_id |-> "DDM-001",
                   required_artifacts |-> <<"data_profile_report", "bias_assessment">>,
                   verification_criteria |-> <<"DDM-001-C1", "DDM-001-C2", "DDM-001-C3">> ],
                 [ checkpoint_id |-> "DDM-002",
                   required_artifacts |-> <<"dpia", "consent_records">>,
                   verification_criteria |-> <<"DDM-002-C1", "DDM-002-C2">> ] >>
          [] phase = "validation_verification" ->
              << [ checkpoint_id |-> "VV-001",
                   required_artifacts |-> <<"validation_report", "fairness_metrics">>,
                   verification_criteria |-> <<"VV-001-C1", "VV-001-C2", "VV-001-C3">> ] >>
          [] phase = "deployment" ->
              << [ checkpoint_id |-> "DEP-001",
                   required_artifacts |-> <<"deployment_plan", "rollback_procedures">>,
                   verification_criteria |-> <<"DEP-001-C1", "DEP-001-C2", "DEP-001-C3">> ],
                 [ checkpoint_id |-> "DEP-002",
                   required_artifacts |-> <<"aia_report", "approval_record">>,
                   verification_criteria |-> <<"DEP-002-C1", "DEP-002-C2">> ] >>
          [] phase = "operation_monitoring" ->
              << [ checkpoint_id |-> "OM-001",
                   required_artifacts |-> <<"monitoring_report">>,
                   verification_criteria |-> <<"OM-001-C1", "OM-001-C2", "OM-001-C3">> ] >>
          [] phase = "shutdown" ->
              << [ checkpoint_id |-> "SD-001",
                   required_artifacts |-> <<"decommission_record", "data_disposal_record">>,
                   verification_criteria |-> <<"SD-001-C1", "SD-001-C2">> ] >> ]

\* _get_phase_checkpoints: fresh PhaseCheckpoint objects built from the
\* template, with the model's defaults passed=False, blocked=False,
\* blocking_reasons=[] and every criterion passed=False
_get_phase_checkpoints(phase) ==
    LET checkpoint_configs == IF phase \in DOMAIN PHASE_CHECKPOINTS
                              THEN PHASE_CHECKPOINTS[phase] ELSE <<>>
    IN  [ i \in 1..Len(checkpoint_configs) |->
            LET config == checkpoint_configs[i]
            IN  [ checkpoint_id |-> config.checkpoint_id,
                  phase |-> phase,
                  required_artifacts |-> config.required_artifacts,
                  verification_criteria |->
                      [ j \in 1..Len(config.verification_criteria) |->
                          [ criterion_id |-> config.verification_criteria[j],
                            passed |-> FALSE ] ],
                  passed |-> FALSE,
                  blocked |-> FALSE,
                  blocking_reasons |-> <<>> ] ]

\* phase_order.index(current)
PhaseIndex(phase) == CHOOSE i \in 1..Len(LifecyclePhase) : LifecyclePhase[i] = phase

_get_next_phase(current) ==
    IF current \in Phases /\ PhaseIndex(current) < Len(LifecyclePhase)
    THEN LifecyclePhase[PhaseIndex(current) + 1]
    ELSE None

_initialize_lifecycle_status(system_profile) ==
    [ current_phase |-> system_profile.current_phase,
      current_phase_checkpoints |-> _get_phase_checkpoints(system_profile.current_phase),
      phase_transitions |-> <<>>,
      ready_for_next_phase |-> FALSE,
      next_phase |-> _get_next_phase(system_profile.current_phase) ]

HasLifecycleStatus(vs) == "lifecycle_status" \in DOMAIN vs

\* context.get_variable("lifecycle_status"), or a fresh status when unset
StatusOrInitial(vs, system_profile) ==
    IF HasLifecycleStatus(vs) THEN vs["lifecycle_status"]
    ELSE _initialize_lifecycle_status(system_profile)

\* LifecycleStatus.get_incomplete_checkpoints, as positions in the list
IncompleteIndexes(status) ==
    {i \in 1..Len(status.current_phase_checkpoints) : ~status.current_phase_checkpoints[i].passed}

\* f"Missing artifact: {a}"
MissingArtifact(a) == "Missing artifact: " \o a

\* f"evidence_{criterion.criterion_id}"
EvidenceKey(criterion_id) == "evidence_" \o criterion_id

\* a verification that ticks the artifacts off: a checkpoint whose artifacts
\* are all present no longer requires them
_verify_single_checkpoint_ticking_off(checkpoint, vs) ==
    LET IsMissing(artifact) == ~get_variable(vs, artifact, FALSE)
        missing_artifacts == SelectSeq(checkpoint.required_artifacts, IsMissing)
        criteria == [ j \in 1..Len(checkpoint.verification_criteria) |->
                        [ checkpoint.verification_criteria[j] EXCEPT
                            !.passed = get_variable(vs,
                                EvidenceKey(checkpoint.verification_criteria[j].criterion_id),
                                FALSE) ] ]
        all_passed == \A j \in 1..Len(criteria) : criteria[j].passed
    IN  IF missing_artifacts # <<>>
        THEN [ checkpoint EXCEPT
                 !.passed = FALSE,
                 !.blocked = TRUE,
                 !.blocking_reasons = [ k \in 1..Len(missing_artifacts) |->
                                          MissingArtifact(missing_artifacts[k]) ] ]
        ELSE [ checkpoint EXCEPT
                 !.required_artifacts = <<>>,
                 !.verification_criteria = criteria,
                 !.passed = all_passed /\ missing_artifacts = <<>> ]

\* a verification that reports only the first of the missing artifacts
_verify_single_checkpoint_first_missing(checkpoint, vs) ==
    LET IsMissing(artifact) == ~get_variable(vs, artifact, FALSE)
        missing_artifacts == SelectSeq(checkpoint.required_artifacts, IsMissing)
        criteria == [ j \in 1..Len(checkpoint.verification_criteria) |->
                        [ checkpoint.verification_criteria[j] EXCEPT
                            !.passed = get_variable(vs,
                                EvidenceKey(checkpoint.verification_criteria[j].criterion_id),
                                FALSE) ] ]
        all_passed == \A j \in 1..Len(criteria) : criteria[j].passed
    IN  IF missing_artifacts # <<>>
        THEN [ checkpoint EXCEPT
                 !.passed = FALSE,
                 !.blocked = TRUE,
                 !.blocking_reasons = << MissingArtifact(missing_artifacts[1]) >> ]
        ELSE [ checkpoint EXCEPT
                 !.verification_criteria = criteria,
                 !.passed = all_passed /\ missing_artifacts = <<>> ]

_verify_single_checkpoint(checkpoint, vs) ==
    LET IsMissing(artifact) == ~get_variable(vs, artifact, FALSE)
        missing_artifacts == SelectSeq(checkpoint.required_artifacts, IsMissing)
        criteria == [ j \in 1..Len(checkpoint.verification_criteria) |->
                        [ checkpoint.verification_criteria[j] EXCEPT
                            !.passed = get_variable(vs,
                                EvidenceKey(checkpoint.verification_criteria[j].criterion_id),
                                FALSE) ] ]
        all_passed == \A j \in 1..Len(criteria) : criteria[j].passed
    IN  IF missing_artifacts # <<>>
        THEN [ checkpoint EXCEPT
                 !.passed = FALSE,
                 !.blocked = TRUE,
                 !.blocking_reasons = [ k \in 1..Len(missing_artifacts) |->
                                          MissingArtifact(missing_artifacts[k]) ] ]
        ELSE [ checkpoint EXCEPT
                 !.verification_criteria = criteria,
                 !.passed = all_passed /\ missing_artifacts = <<>> ]

\* the substrings LifecycleAgent.run looks for
kw_status == <<"s", "t", "a", "t", "u", "s">>

kw_checkpoint == <<"c", "h", "e", "c", "k", "p", "o", "i", "n", "t">>

kw_verify == <<"v", "e", "r", "i", "f", "y">>

kw_transition == <<"t", "r", "a", "n", "s", "i", "t", "i", "o", "n">>

kw_next_phase == <<"n", "e", "x", "t", " ", "p", "h", "a", "s", "e">>

kw_action == <<"a", "c", "t", "i", "o", "n">>

\* _get_lifecycle_status: stores a fresh status when the context has none
_get_lifecycle_status(system_profile, vs) ==
    Reply(IF HasLifecycleStatus(vs) THEN vs
          ELSE set_variable(vs, "lifecycle_status", _initialize_lifecycle_status(system_profile)),
          "lifecycle_status")

\* _get_checkpoints: reads the status, or a fresh one that is not stored
_get_checkpoints(system_profile, vs) == Reply(vs, "checkpoints")

\* a verification of all checkpoints that marks the evidence of the first
\* criterion as used, by clearing it in the store
_verify_checkpoints_consuming_evidence(system_profile, vs) ==
    LET lifecycle_status == StatusOrInitial(vs, system_profile)
        verified_checkpoints ==
            [ i \in 1..Len(lifecycle_status.current_phase_checkpoints) |->
                _verify_single_checkpoint(lifecycle_status.current_phase_checkpoints[i], vs) ]
        verified_status ==
            [ lifecycle_status EXCEPT
                !.current_phase_checkpoints = verified_checkpoints,
                !.ready_for_next_phase =
                    \A i \in 1..Len(verified_checkpoints) : verified_checkpoints[i].passed ]
        used == EvidenceKey(verified_checkpoints[1].verification_criteria[1].criterion_id)
    IN  Reply(set_variable(set_variable(vs, used, FALSE), "lifecycle_status", verified_status),
              "verification_complete")

\* a verification of all checkpoints that is ready as soon as one has passed
_verify_checkpoints_any_passed(system_profile, vs) ==
    LET lifecycle_status == StatusOrInitial(vs, system_profile)
        verified_checkpoints ==
            [ i \in 1..Len(lifecycle_status.current_phase_checkpoints) |->
                _verify_single_checkpoint(lifecycle_status.current_phase_checkpoints[i], vs) ]
        verified_status ==
            [ lifecycle_status EXCEPT
                !.current_phase_checkpoints = verified_checkpoints,
                !.ready_for_next_phase =
                    \E i \in 1..Len(verified_checkpoints) : verified_checkpoints[i].passed ]
    IN  Reply(set_variable(vs, "lifecycle_status", verified_status), "verification_complete")

_verify_checkpoints(system_profile, vs) ==
    LET lifecycle_status == StatusOrInitial(vs, system_profile)
        verified_checkpoints ==
            [ i \in 1..Len(lifecycle_status.current_phase_checkpoints) |->
                _verify_single_checkpoint(lifecycle_status.current_phase_checkpoints[i], vs) ]
        verified_status ==
            [ lifecycle_status EXCEPT
                !.current_phase_checkpoints = verified_checkpoints,
                !.ready_for_next_phase =
                    \A i \in 1..Len(verified_checkpoints) : verified_checkpoints[i].passed ]
    IN  Reply(set_variable(vs, "lifecycle_status", verified_status), "verification_complete")

_assess_transition_readiness(system_profile, vs) ==
    LET lifecycle_status == StatusOrInitial(vs, system_profile)
    IN  IF IncompleteIndexes(lifecycle_status) = {}
        THEN IF lifecycle_status.next_phase # None
             THEN Reply(vs, "ready_for_transition")
             ELSE Reply(vs, "final_phase_no_further_transitions")
        ELSE Reply(vs, "not_ready")

_get_recommendations(system_profile, vs) == Reply(vs, "recommended_actions")

Lifecycle_run(content, system_profile, vs) ==
    LET content_lower == Lower(content)
    IN  IF ~HasProfile(vs) THEN Reply(vs, "error_no_profile")
        ELSE IF Contains(content_lower, kw_status)
             THEN _get_lifecycle_status(system_profile, vs)
        ELSE IF Contains(content_lower, kw_checkpoint)
             THEN _get_checkpoints(system_profile, vs)
        ELSE IF Contains(content_lower, kw_verify)
             THEN _verify_checkpoints(system_profile, vs)
        ELSE IF Contains(content_lower, kw_transition) \/ Contains(content_lower, kw_next_phase)
             THEN _assess_transition_readiness(system_profile, vs)
        ELSE IF Contains(content_lower, kw_recommend) \/ Contains(content_lower, kw_action)
             THEN _get_recommendations(system_profile, vs)
        ELSE _get_lifecycle_status(system_profile, vs)

\* LifecycleAgent.step: initialise, or verify the first incomplete
\* checkpoint in place (ready_for_next_phase is not recomputed)
Lifecycle_step(system_profile, vs) ==
    IF ~HasProfile(vs) THEN Reply(vs, None)
    ELSE IF ~HasLifecycleStatus(vs)
         THEN Reply(set_variable(vs, "lifecycle_status",
                                 _initialize_lifecycle_status(system_profile)),
                    "initialized_lifecycle_tracking")
    ELSE LET lifecycle_status == vs["lifecycle_status"]
             incomplete == IncompleteIndexes(lifecycle_status)
         IN  IF incomplete # {}
             THEN LET first == CHOOSE i \in incomplete : \A j \in incomplete : i <= j
                      verified == _verify_single_checkpoint(
                                      lifecycle_status.current_phase_checkpoints[first], vs)
                  IN  [ vs |-> set_variable(vs, "lifecycle_status",
                                   [ lifecycle_status EXCEPT
                                       !.current_phase_checkpoints[first] = verified ]),
                        ret |-> [ kind |-> "verified_checkpoint",
                                  checkpoint |-> verified.checkpoint_id,
                                  passed |-> verified.passed ] ]
             ELSE Reply(vs, None)

\* the ids of the checkpoints that have passed, in list order
RECURSIVE PassedIds(_, _)
PassedIds(checkpoints, n) ==
    IF n = 0 THEN <<>>
    ELSE IF checkpoints[n].passed
         THEN Append(PassedIds(checkpoints, n - 1), checkpoints[n].checkpoint_id)
         ELSE PassedIds(checkpoints, n - 1)

\* a transition that leaves ready_for_next_phase as it was
record_transition_keeping_ready(system_profile, to_phase, authorized_by, vs) ==
    LET lifecycle_status == StatusOrInitial(vs, system_profile)
        transition ==
            [ kind |-> "PhaseTransition",
              from_phase |-> lifecycle_status.current_phase,
              to_phase |-> to_phase,
              authorized_by |-> authorized_by,
              checkpoints_verified |->
                  PassedIds(lifecycle_status.current_phase_checkpoints,
                            Len(lifecycle_status.current_phase_checkpoints)) ]
    IN  [ vs |-> set_variable(vs, "lifecycle_status",
                   [ current_phase |-> to_phase,
                     current_phase_checkpoints |-> _get_phase_checkpoints(to_phase),
                     phase_transitions |-> Append(lifecycle_status.phase_transitions, transition),
                     ready_for_next_phase |-> lifecycle_status.ready_for_next_phase,
                     next_phase |-> _get_next_phase(to_phase) ]),
          ret |-> transition ]

\* a transition that leaves next_phase as it was
record_transition_keeping_next(system_profile, to_phase, authorized_by, vs) ==
    LET lifecycle_status == StatusOrInitial(vs, system_profile)
        transition ==
            [ kind |-> "PhaseTransition",
              from_phase |-> lifecycle_status.current_phase,
              to_phase |-> to_phase,
              authorized_by |-> authorized_by,
              checkpoints_verified |->
                  PassedIds(lifecycle_status.current_phase_checkpoints,
                            Len(lifecycle_status.current_phase_checkpoints)) ]
    IN  [ vs |-> set_variable(vs, "lifecycle_status",
                   [ current_phase |-> to_phase,
                     current_phase_checkpoints |-> _get_phase_checkpoints(to_phase),
                     phase_transitions |-> Append(lifecycle_status.phase_transitions, transition),
                     ready_for_next_phase |-> FALSE,
                     next_phase |-> lifecycle_status.next_phase ]),
          ret |-> transition ]

record_transition(system_profile, to_phase, authorized_by, vs) ==
    LET lifecycle_status == StatusOrInitial(vs, system_profile)
        transition ==
            [ kind |-> "PhaseTransition",
              from_phase |-> lifecycle_status.current_phase,
              to_phase |-> to_phase,
              authorized_by |-> authorized_by,
              checkpoints_verified |->
                  PassedIds(lifecycle_status.current_phase_checkpoints,
                            Len(lifecycle_status.current_phase_checkpoints)) ]
    IN  [ vs |-> set_variable(vs, "lifecycle_status",
                   [ current_phase |-> to_phase,
                     current_phase_checkpoints |-> _get_phase_checkpoints(to_phase),
                     phase_transitions |-> Append(lifecycle_status.phase_transitions, transition),
                     ready_for_next_phase |-> FALSE,
                     next_phase |-> _get_next_phase(to_phase) ]),
          ret |-> transition ]

(***************************************************************************)
(* Message routing: AIAAgent.run, RAIAgent.run, OrchestratorAgent.run and  *)
(* the RAIRunner entry points.                                             *)
(***************************************************************************)
Digits == <<"0", "1", "2", "3", "4", "5", "6", "7", "8", "9">>

IsDigit(c) == \E d \in 1..10 : Digits[d] = c

DigitValue(c) == (CHOOSE d \in 1..10 : Digits[d] = c) - 1

\* \s of the regular expression
IsSpace(c) == c \in {" ", "\t", "\n", "\r"}

RECURSIVE SkipSpaces(_, _)
SkipSpaces(s, i) == IF i <= Len(s) /\ IsSpace(s[i]) THEN SkipSpaces(s, i + 1) ELSE i

RECURSIVE ReadInt(_, _, _)
ReadInt(s, i, acc) ==
    IF i <= Len(s) /\ IsDigit(s[i]) THEN ReadInt(s, i + 1, acc * 10 + DigitValue(s[i])) ELSE acc

\* re.search(r'section\s*(\d+)', content.lower()): the number of the leftmost
\* match as a one-element sequence, or the empty sequence for no match
_extract_section_number(content) ==
    LET s == Lower(content)
        DigitsFrom(i) == SkipSpaces(s, i + Len(kw_section))
        matches == {i \in 1..Len(s) :
                       /\ i + Len(kw_section) - 1 <= Len(s)
                       /\ SubSeq(s, i, i + Len(kw_section) - 1) = kw_section
                       /\ DigitsFrom(i) <= Len(s)
                       /\ IsDigit(s[DigitsFrom(i)])}
    IN  IF matches = {} THEN <<>>
        ELSE LET first == CHOOSE i \in matches : \A j \in matches : i <= j
             IN  <<ReadInt(s, DigitsFrom(first), 0)>>

_run_section(section_num, vs) ==
    IF section_num < 1 \/ section_num > Len(AIASections) THEN Reply(vs, "invalid_section_number")
    ELSE IF ~HasProfile(vs) THEN Reply(vs, "error_no_profile")
    ELSE Reply(set_variable(vs, SectionKey(section_num), TRUE), "section_complete")

_generate_report_message(vs, compensated) ==
    IF "aia_report" \in DOMAIN vs THEN Reply(vs, "aia_report_generated")
    ELSE CompileAndStore(vs, compensated, "aia_report_generated")

\* the "section" branch: a missing number and the number 0 are both falsy
\* and fall through to the status message
SectionBranch(section_num, vs) ==
    IF section_num # <<>> /\ section_num # <<0>>
    THEN _run_section(section_num[1], vs)
    ELSE Reply(vs, "aia_status")

AIA_dispatch(content, content_lower, vs, compensated) ==
    IF Contains(content_lower, kw_full_assessment) \/ Contains(content_lower, kw_complete_aia)
    THEN AIA_run_full_assessment(vs, compensated)
    ELSE IF Contains(content_lower, kw_section)
    THEN SectionBranch(_extract_section_number(content), vs)
    ELSE IF Contains(content_lower, kw_report) \/ Contains(content_lower, kw_generate)
    THEN _generate_report_message(vs, compensated)
    ELSE Reply(vs, "aia_status")

AIA_run(content, vs, compensated) == AIA_dispatch(content, Lower(content), vs, compensated)

_parse_intent(content) ==
    LET content_lower == Lower(content)
    IN  IF Contains(content_lower, kw_evaluate) \/ Contains(content_lower, kw_assess)
        THEN "evaluate"
        ELSE IF Contains(content_lower, kw_recommend) \/ Contains(content_lower, kw_suggestion)
        THEN "recommend"
        ELSE "query"

\* f"{principle}_evaluation"
EvaluationKey(principle) == principle \o "_evaluation"

\* the block generate_recommendations adds when evaluation.score < 0.7
general_recommendations(principle) ==
    CASE principle = "accountability" ->
           << "Establish an AI Governance Board with clear charter and decision authority",
              "Implement comprehensive audit logging for all AI decisions",
              "Create RACI matrix defining responsibilities for AI system lifecycle",
              "Develop incident response plan specific to AI system failures" >>
      [] principle = "transparency" ->
           << "Create comprehensive Model Card following Google/Hugging Face template",
              "Implement user-facing explanation interface for AI decisions",
              "Develop Data Sheet for training datasets",
              "Establish clear AI disclosure policy for affected stakeholders" >>
      [] principle = "fairness" ->
           << "Implement fairness metrics monitoring (demographic parity, equalized odds)",
              "Conduct regular bias audits with diverse testing teams",
              "Review data collection processes for sampling bias",
              "Establish fairness thresholds and automated alerts" >>
      [] principle = "security" ->
           << "Conduct Data Protection Impact Assessment (DPIA)",
              "Implement comprehensive access control with audit logging",
              "Establish incident response plan for AI-specific incidents",
              "Review data retention policies and implement secure deletion" >>
      [] principle = "robustness" ->
           << "Implement data and concept drift monitoring with automated alerts",
              "Establish performance baselines and degradation thresholds",
              "Create comprehensive test suite including edge cases and adversarial inputs",
              "Document and test fallback procedures for system failures" >>
      [] principle = "alignment" ->
           << "Implement human-in-the-loop for high-stakes decisions",
              "Establish ethics review board or committee for AI decisions",
              "Create user feedback mechanism for continuous alignment improvement",
              "Document and communicate AI limitations to all stakeholders" >>

\* the block generate_recommendations adds when evaluation.score < 0.5
urgent_recommendations(principle) ==
    CASE principle = "accountability" ->
           << "Conduct urgent governance gap assessment with external review",
              "Appoint dedicated AI accountability officer or team",
              "Implement mandatory AIA process for all AI deployments" >>
      [] principle = "transparency" ->
           << "Conduct transparency gap assessment with stakeholder input",
              "Implement explainability tools (SHAP, LIME) for model interpretation",
              "Create tiered explanation system for different audience levels" >>
      [] principle = "fairness" ->
           << "Engage external fairness audit from qualified third party",
              "Implement bias mitigation techniques (re-sampling, re-weighting, adversarial debiasing)",
              "Create fairness review board with diverse representation",
              "Develop remediation process for identified bias issues" >>
      [] principle = "security" ->
           << "Engage security firm for penetration testing of AI system",
              "Implement adversarial robustness testing (red-teaming)",
              "Deploy privacy-enhancing technologies (differential privacy, encryption)",
              "Create security operations playbook for AI system monitoring" >>
      [] principle = "robustness" ->
           << "Conduct chaos engineering exercises to test system resilience",
              "Implement automated performance regression testing in CI/CD",
              "Establish SLAs with clear availability and performance targets",
              "Create runbooks for common failure scenarios" >>
      [] principle = "alignment" ->
           << "Conduct comprehensive ethical impact assessment with diverse stakeholders",
              "Implement kill switch or pause mechanism for autonomous operations",
              "Engage ethics experts and affected community representatives",
              "Establish regular alignment audits with external review" >>

\* the entries generate_recommendations makes of the first n findings; the
\* accountability agent puts "[IMMEDIATE] " before those of high and
\* critical findings
RECURSIVE FindingRecommendations(_, _, _)
FindingRecommendations(principle, findings, n) ==
    IF n = 0 THEN <<>>
    ELSE Append(FindingRecommendations(principle, findings, n - 1),
                IF principle = "accountability" /\ findings[n].severity \in {"high", "critical"}
                THEN "[IMMEDIATE] " \o findings[n].recommendation
                ELSE findings[n].recommendation)

\* generate_recommendations with elif for the second test: the block for
\* scores below 0.5 replaces the general one
generate_recommendations_urgent_instead(principle, evaluation) ==
    FindingRecommendations(principle, evaluation.findings, Len(evaluation.findings))
        \o (IF FLt(evaluation.score, Dec(50)) THEN urgent_recommendations(principle)
            ELSE IF FLt(evaluation.score, Dec(70)) THEN general_recommendations(principle)
            ELSE <<>>)

\* generate_recommendations(evaluation, context) of the agent of a principle
generate_recommendations(principle, evaluation) ==
    FindingRecommendations(principle, evaluation.findings, Len(evaluation.findings))
        \o (IF FLt(evaluation.score, Dec(70)) THEN general_recommendations(principle) ELSE <<>>)
        \o (IF FLt(evaluation.score, Dec(50)) THEN urgent_recommendations(principle) ELSE <<>>)

\* RAIAgent.run of the agent of one principle; llm is the outcome of the
\* generate call its general-query branch makes
RAIAgent_dispatch(intent, principle, system_profile, vs, llm) ==
    IF intent = "evaluate"
    THEN IF ~HasProfile(vs) THEN Reply(vs, "error_no_profile")
         ELSE Reply(set_variable(vs, EvaluationKey(principle),
                                 Evaluate(principle, system_profile, vs, llm)),
                    "evaluation_summary")
    ELSE IF intent = "recommend"
    THEN IF EvaluationKey(principle) \notin DOMAIN vs THEN Reply(vs, "error_no_evaluation")
         ELSE Reply(vs, "recommendations")
    ELSE IF llm = LLMRaises THEN [vs |-> vs, ret |-> Exception]
         ELSE Reply(vs, "llm_response")

RAIAgent_run(principle, content, system_profile, vs, llm) ==
    RAIAgent_dispatch(_parse_intent(content), principle, system_profile, vs, llm)

\* f"{principle}_complete"
CompleteKey(principle) == principle \o "_complete"

\* RAIAgent.step without the test of the complete flag
RAIAgent_step_again(principle, system_profile, vs, llm) ==
    IF ~HasProfile(vs) THEN Reply(vs, None)
    ELSE Reply(set_variable(set_variable(vs, EvaluationKey(principle),
                                         Evaluate(principle, system_profile, vs, llm)),
                            CompleteKey(principle), TRUE),
               "completed_evaluation")

\* RAIAgent.step: one evaluation, unless there is no profile or it is done
RAIAgent_step(principle, system_profile, vs, llm) ==
    IF ~HasProfile(vs) THEN Reply(vs, None)
    ELSE IF get_variable(vs, CompleteKey(principle), FALSE) THEN Reply(vs, None)
    ELSE Reply(set_variable(set_variable(vs, EvaluationKey(principle),
                                         Evaluate(principle, system_profile, vs, llm)),
                            CompleteKey(principle), TRUE),
               "completed_evaluation")

_classify_intent(content) ==
    LET content_lower == Lower(content)
    IN  IF Contains(content_lower, kw_full_assessment) \/ Contains(content_lower, kw_comprehensive)
        THEN "full_assessment"
        ELSE IF Contains(content_lower, kw_aia) \/ Contains(content_lower, kw_impact_assessment)
        THEN "aia"
        ELSE IF Contains(content_lower, kw_lifecycle) \/ Contains(content_lower, kw_phase)
        THEN "lifecycle"
        ELSE IF \E i \in 1..Len(Principles) : Contains(content_lower, PrincipleChars[Principles[i]])
        THEN "principle_evaluation"
        ELSE "general"

\* the first principle, in list order, whose name the text contains
FirstPrincipleIn(text) ==
    LET found == {i \in 1..Len(Principles) : Contains(text, PrincipleChars[Principles[i]])}
    IN  IF found = {} THEN None
        ELSE Principles[CHOOSE i \in found : \A j \in found : i <= j]

_extract_principle(content) == FirstPrincipleIn(Lower(content))

\* the context after the loop of _run_full_assessment has run the first n
\* evaluators, and the results list it has built
\* one round of the loop: the evaluation is appended to the results and
\* stored under f"{principle_name}_evaluation"
Evaluated(prev, principle, evaluation) ==
    [ vs |-> set_variable(prev.vs, EvaluationKey(principle), evaluation),
      results |-> Append(prev.results, evaluation) ]

EvaluatedNext(prev, principle, system_profile, llm) ==
    Evaluated(prev, principle, Evaluate(principle, system_profile, prev.vs, llm))

RECURSIVE EvaluatedAll(_, _, _, _)
EvaluatedAll(system_profile, vs, llm, n) ==
    IF n = 0 THEN [vs |-> vs, results |-> <<>>]
    ELSE EvaluatedNext(EvaluatedAll(system_profile, vs, llm, n - 1),
                       Principles[n], system_profile, llm)

\* context.set_variable("principle_evaluations", results)
WithEvaluations(done) == set_variable(done.vs, "principle_evaluations", done.results)

Orchestrator_run_full_assessment(system_profile, vs, llm, compensated) ==
    IF ~HasProfile(vs) THEN Reply(vs, "error_no_profile")
    ELSE Reply(AIA_run(kw_full_assessment,
                       WithEvaluations(EvaluatedAll(system_profile, vs, llm, Len(Principles))),
                       compensated).vs,
               "rai_assessment_complete")

\* the loop of _run_full_assessment over self.principle_agents.items(), a
\* dict in registration order: principle_agents lists the registered
\* principles in that order
RECURSIVE EvaluatedInOrder(_, _, _, _, _)
EvaluatedInOrder(principle_agents, system_profile, vs, llm, n) ==
    IF n = 0 THEN [vs |-> vs, results |-> <<>>]
    ELSE EvaluatedNext(EvaluatedInOrder(principle_agents, system_profile, vs, llm, n - 1),
                       principle_agents[n], system_profile, llm)

\* _run_full_assessment of an orchestrator whose agents were registered in
\* the order principle_agents
FullAssessmentInOrder(principle_agents, system_profile, vs, llm, compensated) ==
    IF ~HasProfile(vs) THEN Reply(vs, "error_no_profile")
    ELSE Reply(AIA_run(kw_full_assessment,
                       WithEvaluations(EvaluatedInOrder(principle_agents, system_profile, vs,
                                                        llm, Len(principle_agents))),
                       compensated).vs,
               "rai_assessment_complete")

_run_principle_evaluation(principle, system_profile, vs, llm) ==
    IF ~HasProfile(vs) THEN Reply(vs, "error_no_profile")
    ELSE Reply(set_variable(vs, EvaluationKey(principle),
                            Evaluate(principle, system_profile, vs, llm)),
               "evaluation_summary")

HelpReply(vs) == Reply(vs, "help")

\* _route_to_best_agent: llm_route is the outcome of the routing generate
\* call, llm_agent that of the call the chosen agent may make
\* except Exception: pass
OrHelp(r) == IF r.ret = Exception THEN HelpReply(r.vs) ELSE r

RouteTo(principle, content, system_profile, vs, llm_agent) ==
    IF principle = None THEN HelpReply(vs)
    ELSE OrHelp(RAIAgent_run(principle, content, system_profile, vs, llm_agent))

_route_to_best_agent(content, system_profile, vs, llm_route, llm_agent) ==
    IF llm_route = LLMRaises THEN HelpReply(vs)
    ELSE RouteTo(FirstPrincipleIn(Lower(llm_route)), content, system_profile, vs, llm_agent)

msg_status == kw_status

Orchestrator_dispatch(intent, content, system_profile, vs, llm_route, llm_agent, compensated) ==
    IF intent = "full_assessment"
    THEN Orchestrator_run_full_assessment(system_profile, vs, llm_agent, compensated)
    ELSE IF intent = "principle_evaluation"
    THEN _run_principle_evaluation(_extract_principle(content), system_profile, vs, llm_agent)
    ELSE IF intent = "aia" THEN AIA_run(kw_full_assessment, vs, compensated)
    ELSE IF intent = "lifecycle" THEN Lifecycle_run(msg_status, system_profile, vs)
    ELSE _route_to_best_agent(content, system_profile, vs, llm_route, llm_agent)

Orchestrator_run(content, system_profile, vs, llm_route, llm_agent, compensated) ==
    Orchestrator_dispatch(_classify_intent(content), content, system_profile, vs,
                          llm_route, llm_agent, compensated)

\* Message.user("Run full RAI assessment")
msg_run_full_rai_assessment == <<"R", "u", "n", " ", "f", "u", "l", "l", " ", "R", "A", "I", " ", "a", "s", "s", "e", "s", "s", "m", "e", "n", "t">>

\* Context(): no variables set
EmptyContext == [key \in {} |-> TRUE]

\* RAIRunner.run_assessment: the report it returns
\* report = context.get_variable("aia_report"), after the AIA agent has run
\* when the orchestrator left no report
ReportAfter(routed, compensated) ==
    IF "aia_report" \in DOMAIN routed THEN routed["aia_report"]
    ELSE get_variable(AIA_run(kw_full_assessment, routed, compensated).vs,
                      "aia_report", [kind |-> None])

run_assessment(system_profile, principles, llm_route, llm_agent, compensated) ==
    ReportAfter(Orchestrator_run(msg_run_full_rai_assessment, system_profile,
                                 [ system_profile |-> TRUE,
                                   requested_principles |->
                                       IF principles = <<>> THEN <<"all">> ELSE principles ],
                                 llm_route, llm_agent, compensated).vs,
                compensated)

\* RAIRunner.run_principle_evaluation: the evaluation, or ValueError
run_principle_evaluation(system_profile, principle, llm) ==
    LET known == {i \in 1..Len(Principles) : PrincipleChars[Principles[i]] = Lower(principle)}
    IN  IF known = {} THEN Exception
        ELSE Evaluate(Principles[CHOOSE i \in known : TRUE], system_profile,
                      [system_profile |-> TRUE], llm)

\* RAIRunner.run_aia: the report it returns
run_aia(system_profile, include_principle_evaluations, llm, compensated) ==
    get_variable(
        AIA_run(kw_full_assessment,
                IF include_principle_evaluations
                THEN WithEvaluations(EvaluatedAll(system_profile, [system_profile |-> TRUE],
                                                  llm, Len(Principles)))
                ELSE [system_profile |-> TRUE],
                compensated).vs,
        "aia_report", [kind |-> None])

\* LifecycleStatus.calculate_phase_completion
calculate_phase_completion(status) ==
    IF status.current_phase_checkpoints = <<>> THEN FInt(1)
    ELSE FDivInt(FInt(Len(status.current_phase_checkpoints)
                          - Cardinality(IncompleteIndexes(status))),
                 Len(status.current_phase_checkpoints))

\* RAIRunner.check_lifecycle: a fresh context holding the profile, the
\* lifecycle agent asked for "status", and the stored status summarised
\* (a checkpoint is named by its id)
check_lifecycle(system_profile) ==
    LET context == set_variable(EmptyContext, "system_profile", TRUE)
        vs == Lifecycle_run(msg_status, system_profile, context).vs
    IN  IF HasLifecycleStatus(vs)
        THEN LET lifecycle_status == vs["lifecycle_status"]
             IN  [ current_phase |-> lifecycle_status.current_phase,
                   completion |-> calculate_phase_completion(lifecycle_status),
                   ready_for_next |-> lifecycle_status.ready_for_next_phase,
                   next_phase |-> lifecycle_status.next_phase,
                   incomplete_checkpoints |->
                       LET checkpoints == lifecycle_status.current_phase_checkpoints
                           incomplete == SelectSeq([i \in 1..Len(checkpoints) |-> i],
                                                   LAMBDA i : ~checkpoints[i].passed)
                       IN  [ k \in 1..Len(incomplete) |->
                               checkpoints[incomplete[k]].checkpoint_id ] ]
        ELSE [ status |-> "not_initialized" ]

(***************************************************************************)
(* The state: the caller's SystemProfile, the session Context, the         *)
(* AIAAgent's section counter, and what the last call returned.            *)
(***************************************************************************)
VARIABLES
    profile,              \* the SystemProfile object the caller holds
    variables,            \* Context.variables of the caller's session
    session_ops,          \* how many calls have changed the session
    last,                 \* the last call and what it returned
    py_compensated_sum,   \* whether the interpreter's sum() compensates
    aia_current_section,  \* AIAAgent._current_section
    store_ops,            \* how many single store entries the caller has set
    transitions           \* how many transitions have been recorded

vars == <<profile, variables, session_ops, last, py_compensated_sum,
          aia_current_section, store_ops, transitions>>

\* bounds of the exploration
MaxSessionOps == 1

MaxEvals == 3

MaxStoreOps == 2

MaxTransitions == 1

\* the profiles a caller passes in: the base profiles and every profile that
\* differs from one of them in a single field
InputProfiles ==
    BaseProfiles \cup
    UNION { { [base EXCEPT ![field] = value] : value \in FieldValues[field] } :
            base \in BaseProfiles, field \in ProfileFields }

\* queries sent through process_query
msg_full_assessment_please == <<"P", "l", "e", "a", "s", "e", " ", "r", "u", "n", " ", "a", " ", "F", "u", "l", "l", " ", "A", "s", "s", "e", "s", "s", "m", "e", "n", "t">>

msg_run_aia == <<"R", "u", "n", " ", "A", "I", "A">>

msg_lifecycle == <<"W", "h", "i", "c", "h", " ", "l", "i", "f", "e", "c", "y", "c", "l", "e", " ", "p", "h", "a", "s", "e", "?">>

msg_evaluate_fairness == <<"E", "v", "a", "l", "u", "a", "t", "e", " ", "F", "a", "i", "r", "n", "e", "s", "s", " ", "a", "n", "d", " ", "s", "e", "c", "u", "r", "i", "t", "y">>

msg_assess_system == <<"P", "l", "e", "a", "s", "e", " ", "a", "s", "s", "e", "s", "s", " ", "t", "h", "e", " ", "s", "y", "s", "t", "e", "m">>

msg_what_to_recommend == <<"W", "h", "a", "t", " ", "d", "o", " ", "y", "o", "u", " ", "r", "e", "c", "o", "m", "m", "e", "n", "d", "?">>

msg_hello == <<"h", "e", "l", "l", "o">>

QueryMessages ==
    {msg_run_full_rai_assessment, msg_full_assessment_please,
     msg_run_aia,
     msg_lifecycle,
     msg_evaluate_fairness,
     msg_assess_system,
     msg_what_to_recommend,
     msg_hello}

\* replies of the LLM provider; reply_mock is what MockLLMProvider answers to
\* the routing prompt
reply_mock == <<"B", "a", "s", "e", "d", " ", "o", "n", " ", "t", "h", "e", " ", "a", "c", "c", "o", "u", "n", "t", "a", "b", "i", "l", "i", "t", "y", " ", "a", "n", "a", "l", "y", "s", "i", "s", ",", " ", "t", "h", "e", " ", "s", "y", "s", "t", "e", "m", " ", "h", "a", "s", " ", "c", "l", "e", "a", "r", " ", "o", "w", "n", "e", "r", "s", "h", "i", "p">>

reply_fairness == <<" ", "F", "a", "i", "r", "n", "e", "s", "s", "\n">>

reply_unknown == <<"I", " ", "a", "m", " ", "n", "o", "t", " ", "s", "u", "r", "e">>

\* the outcome of one generate call
LLMOutcomes == {reply_unknown, LLMRaises}

\* the outcomes of the generate calls of one request: that of the routing
\* call, then that of the calls the chosen agent makes
LLMScripts ==
    { [route |-> reply_mock, agent |-> reply_unknown],
      [route |-> reply_fairness, agent |-> LLMRaises],
      [route |-> reply_unknown, agent |-> reply_unknown],
      [route |-> LLMRaises, agent |-> LLMRaises] }

\* the scripts that can make a difference to a query: one that is routed
\* without the LLM needs a single script
ScriptsFor(query) ==
    IF _classify_intent(query) = "general" THEN LLMScripts
    ELSE {[route |-> reply_unknown, agent |-> reply_unknown]}

InitCommon ==
    /\ session_ops = 0
    /\ last = [op |-> "none"]
    /\ aia_current_section = 0
    /\ store_ops = 0
    /\ transitions = 0

Init ==
    /\ InitCommon
    /\ py_compensated_sum \in BOOLEAN
    /\ profile \in InputProfiles
    /\ variables = EmptyContext

SessionOpen == HasProfile(variables)

RunAssessment(principles, llm) ==
    /\ ~SessionOpen
    /\ last.op = "none"
    /\ last' = [ op |-> "run_assessment",
                 ret |-> run_assessment(profile, principles, llm.route, llm.agent,
                                        py_compensated_sum) ]
    /\ UNCHANGED <<profile, variables, session_ops, py_compensated_sum,
                   aia_current_section, store_ops, transitions>>

RunPrincipleEvaluation(principle, llm) ==
    /\ ~SessionOpen
    /\ last.op = "none"
    /\ last' = [ op |-> "run_principle_evaluation",
                 principle |-> principle,
                 ret |-> run_principle_evaluation(profile, principle, llm) ]
    /\ UNCHANGED <<profile, variables, session_ops, py_compensated_sum,
                   aia_current_section, store_ops, transitions>>

RunAia(include_principle_evaluations, llm) ==
    /\ ~SessionOpen
    /\ last.op = "none"
    /\ last' = [ op |-> "run_aia",
                 include_principle_evaluations |-> include_principle_evaluations,
                 ret |-> run_aia(profile, include_principle_evaluations, llm,
                                 py_compensated_sum) ]
    /\ UNCHANGED <<profile, variables, session_ops, py_compensated_sum,
                   aia_current_section, store_ops, transitions>>

\* RAIRunner.interactive_session
InteractiveSession ==
    /\ ~SessionOpen
    /\ last.op = "none"
    /\ variables' = [system_profile |-> TRUE]
    /\ last' = [op |-> "interactive_session"]
    /\ UNCHANGED <<profile, session_ops, py_compensated_sum,
                   aia_current_section, store_ops, transitions>>

\* the caller sets one of the flags the evaluators read
SetFlag(key, value) ==
    /\ SessionOpen
    /\ last.op \in {"interactive_session", "set_variable"}
    /\ session_ops < MaxSessionOps
    /\ variables' = set_variable(variables, key, value)
    /\ session_ops' = session_ops + 1
    /\ last' = [op |-> "set_variable"]
    /\ UNCHANGED <<profile, py_compensated_sum, aia_current_section,
                   store_ops, transitions>>

\* the session and the reply after orchestrator.run has returned r
Processed(query, r) ==
    /\ variables' = r.vs
    /\ last' = [op |-> "process_query", query |-> query, ret |-> r.ret]

\* RAIRunner.process_query
ProcessQuery(query, llm) ==
    /\ SessionOpen
    /\ last.op # "evaluate"
    /\ session_ops < MaxSessionOps
    /\ Processed(query, Orchestrator_run(query, profile, variables, llm.route, llm.agent,
                                         py_compensated_sum))
    /\ session_ops' = session_ops + 1
    /\ UNCHANGED <<profile, py_compensated_sum, aia_current_section,
                   store_ops, transitions>>

\* a direct call of one evaluator: agent.evaluate(system_profile, context)
AgentEvaluate(principle, llm) ==
    /\ SessionOpen
    /\ last.op \in {"interactive_session", "set_variable"}
    /\ last' = [ op |-> "evaluate",
                 principle |-> principle,
                 ret |-> Evaluate(principle, profile, variables, llm) ]
    /\ UNCHANGED <<profile, variables, session_ops, py_compensated_sum,
                   aia_current_section, store_ops, transitions>>

\* a direct call of agent.generate_recommendations(evaluation, context) with
\* the evaluation the agent has just returned
AgentRecommend ==
    /\ SessionOpen
    /\ last.op = "evaluate"
    /\ last' = [ op |-> "generate_recommendations",
                 evaluation |-> last.ret,
                 ret |-> generate_recommendations(last.principle, last.ret) ]
    /\ UNCHANGED <<profile, variables, session_ops, py_compensated_sum,
                   aia_current_section, store_ops, transitions>>

\* principle arguments of run_principle_evaluation
name_Security == <<"S", "e", "c", "u", "r", "i", "t", "y">>

name_privacy == <<"p", "r", "i", "v", "a", "c", "y">>

PrincipleArguments ==
    {PrincipleChars[Principles[i]] : i \in 1..Len(Principles)}
        \cup {name_Security, name_privacy}

PrincipleSet == {Principles[i] : i \in 1..Len(Principles)}

Next ==
    \/ \E principles \in {<<>>, <<"fairness">>} : \E llm \in LLMScripts :
           RunAssessment(principles, llm)
    \/ \E principle \in PrincipleArguments : \E llm \in LLMOutcomes :
           RunPrincipleEvaluation(principle, llm)
    \/ \E include \in BOOLEAN : \E llm \in LLMOutcomes : RunAia(include, llm)
    \/ InteractiveSession
    \/ \E key \in {"monitoring_configured", "enable_llm_analysis"} : \E value \in BOOLEAN :
           SetFlag(key, value)
    \/ \E query \in QueryMessages : \E llm \in ScriptsFor(query) : ProcessQuery(query, llm)
    \/ \E principle \in PrincipleSet : \E llm \in LLMOutcomes : AgentEvaluate(principle, llm)
    \/ AgentRecommend

Spec == Init /\ [][Next]_vars


(***************************************************************************)
(* The aggregation on its own: a session whose caller puts evaluations     *)
(* into the context under "principle_evaluations" and then talks to the    *)
(* AIAAgent directly (run and step).                                       *)
(***************************************************************************)
\* AIAAgent.step: one section per call, then the compilation; the compiled
\* report is not stored
AIA_step(current_section, vs, compensated) ==
    IF current_section >= Len(AIASections)
    THEN IF _compile_report(vs, compensated) = Exception
         THEN [vs |-> vs, ret |-> Exception, current_section |-> current_section]
         ELSE [vs |-> vs, ret |-> [kind |-> "aia_complete"], current_section |-> current_section]
    ELSE IF ~HasProfile(vs)
    THEN [vs |-> vs, ret |-> [kind |-> "error_no_profile"], current_section |-> current_section]
    ELSE [ vs |-> set_variable(vs, SectionKey(current_section + 1), TRUE),
           ret |-> [kind |-> "section_complete"],
           current_section |-> current_section + 1 ]

\* the findings a supplied evaluation carries: one per severity listed, the
\* recommendation text naming the principle and the position
SuppliedFindings(principle, severities) ==
    [ i \in 1..Len(severities) |->
        Finding("-00" \o ToString(i), severities[i],
                "Remedy " \o ToString(i) \o " for " \o principle) ]

\* the evaluations a caller supplies: a score in hundredths and the
\* severities of the findings
SuppliedKinds ==
    { [score |-> 100, severities |-> <<>>],
      [score |-> 80, severities |-> <<>>],
      [score |-> 80, severities |-> <<"high">>],
      [score |-> 65, severities |-> <<>>],
      [score |-> 65, severities |-> <<"high", "medium", "high">>],
      [score |-> 45, severities |-> <<"low">>],
      [score |-> 25, severities |-> <<>>],
      [score |-> 90, severities |-> <<"critical">>] }

SuppliedEvaluation(principle, kind) ==
    PrincipleEvaluation(principle, Dec(kind.score),
                        SuppliedFindings(principle, kind.severities))

InitAIA ==
    /\ InitCommon
    /\ py_compensated_sum \in BOOLEAN
    /\ profile = TestProfile
    /\ variables = [system_profile |-> TRUE]

\* the caller appends an evaluation of the next principle to the list in
\* the context
SupplyEvaluation(kind) ==
    /\ last.op \in {"none", "set_variable"}
    /\ Len(get_variable(variables, "principle_evaluations", <<>>)) < MaxEvals
    /\ variables' =
           set_variable(variables, "principle_evaluations",
               Append(get_variable(variables, "principle_evaluations", <<>>),
                      SuppliedEvaluation(
                          Principles[Len(get_variable(variables, "principle_evaluations", <<>>)) + 1],
                          kind)))
    /\ last' = [op |-> "set_variable"]
    /\ UNCHANGED <<profile, session_ops, py_compensated_sum, aia_current_section,
                   store_ops, transitions>>

AIARan(content, r) ==
    /\ variables' = r.vs
    /\ last' = [op |-> "aia_run", content |-> content, ret |-> r.ret]

\* aia_agent.run(Message.user(content), context)
AIARun(content) ==
    /\ session_ops < MaxSessionOps
    /\ AIARan(content, AIA_run(content, variables, py_compensated_sum))
    /\ session_ops' = session_ops + 1
    /\ UNCHANGED <<profile, py_compensated_sum, aia_current_section, store_ops, transitions>>

AIAStepped(r) ==
    /\ variables' = r.vs
    /\ aia_current_section' = r.current_section
    /\ last' = [op |-> "aia_step", ret |-> r.ret]

\* aia_agent.step(context)
AIAStep ==
    /\ last.op \in {"none", "aia_step"}
    /\ AIAStepped(AIA_step(aia_current_section, variables, py_compensated_sum))
    /\ UNCHANGED <<profile, session_ops, py_compensated_sum, store_ops, transitions>>

\* messages sent to the AIAAgent
msg_complete_aia == <<"C", "o", "m", "p", "l", "e", "t", "e", " ", "A", "I", "A">>

msg_section_2 == <<"R", "u", "n", " ", "S", "e", "c", "t", "i", "o", "n", " ", " ", "2", " ", "n", "o", "w">>

msg_section_0 == <<"s", "e", "c", "t", "i", "o", "n", " ", "0">>

msg_section_9 == <<"s", "e", "c", "t", "i", "o", "n", " ", "9">>

msg_sections == <<"W", "h", "i", "c", "h", " ", "s", "e", "c", "t", "i", "o", "n", "s", " ", "a", "r", "e", " ", "t", "h", "e", "r", "e", "?">>

msg_generate_report == <<"G", "e", "n", "e", "r", "a", "t", "e", " ", "t", "h", "e", " ", "r", "e", "p", "o", "r", "t">>

AIAMessages ==
    {kw_full_assessment, msg_complete_aia, msg_section_2, msg_section_0, msg_section_9, msg_sections, msg_generate_report, msg_hello}

NextAIA ==
    \/ \E kind \in SuppliedKinds : SupplyEvaluation(kind)
    \/ \E content \in AIAMessages : AIARun(content)
    \/ AIAStep

SpecAIA == InitAIA /\ [][NextAIA]_vars


(***************************************************************************)
(* The lifecycle tracker on its own: a session in which the caller puts    *)
(* artifacts and evidence into the context and calls the LifecycleAgent    *)
(* (run, step and record_transition).                                      *)
(***************************************************************************)
\* messages sent to the LifecycleAgent
msg_show_checkpoints == <<"S", "h", "o", "w", " ", "c", "h", "e", "c", "k", "p", "o", "i", "n", "t", "s">>

msg_please_verify == <<"P", "l", "e", "a", "s", "e", " ", "V", "E", "R", "I", "F", "Y">>

msg_verify_checkpoints == <<"V", "e", "r", "i", "f", "y", " ", "c", "h", "e", "c", "k", "p", "o", "i", "n", "t", "s">>

msg_ready_for_transition == <<"R", "e", "a", "d", "y", " ", "f", "o", "r", " ", "t", "h", "e", " ", "N", "e", "x", "t", " ", "P", "h", "a", "s", "e", "?">>

msg_which_actions == <<"W", "h", "i", "c", "h", " ", "a", "c", "t", "i", "o", "n", "s", " ", "a", "r", "e", " ", "r", "e", "c", "o", "m", "m", "e", "n", "d", "e", "d", "?">>

LifecycleMessages ==
    {msg_status, msg_show_checkpoints, msg_please_verify, msg_verify_checkpoints, msg_ready_for_transition, msg_which_actions, msg_hello}

authorized_by_board == "board"

\* the lifecycle tracker adds no floats: one interpreter is enough
InitLifecycle ==
    /\ InitCommon
    /\ py_compensated_sum = FALSE
    /\ profile \in {[TestProfile EXCEPT !.current_phase = phase] : phase \in Phases}
    /\ variables = [system_profile |-> TRUE]

\* the context keys one checkpoint reads: its required artifacts and the
\* evidence keys of its criteria
KeysOf(checkpoint) ==
    {checkpoint.required_artifacts[k] : k \in 1..Len(checkpoint.required_artifacts)}
        \cup {EvidenceKey(checkpoint.verification_criteria[j].criterion_id) :
                  j \in 1..Len(checkpoint.verification_criteria)}

\* the checkpoints of the current phase: those of the stored status, or
\* those a fresh status would have
CurrentCheckpoints == StatusOrInitial(variables, profile).current_phase_checkpoints

CurrentKeys == UNION {KeysOf(CurrentCheckpoints[i]) : i \in 1..Len(CurrentCheckpoints)}

\* context.set_variable(key, value) by the caller: an artifact or a piece
\* of evidence is supplied (TRUE) or replaced by an empty value (FALSE)
SetStore(key, value) ==
    /\ store_ops < MaxStoreOps
    /\ key \in CurrentKeys
    /\ value \/ get_variable(variables, key, FALSE)
    /\ variables' = set_variable(variables, key, value)
    /\ store_ops' = store_ops + 1
    /\ last' = [op |-> "set_variable"]
    /\ UNCHANGED <<profile, session_ops, py_compensated_sum, aia_current_section, transitions>>

RECURSIVE WithKeys(_, _)
WithKeys(vs, keys) ==
    IF keys = {} THEN vs
    ELSE WithKeys(set_variable(vs, CHOOSE k \in keys : TRUE, TRUE),
                  keys \ {CHOOSE k \in keys : TRUE})

\* the caller supplies every artifact and all the evidence of one checkpoint
SupplyCheckpoint(i) ==
    /\ store_ops < MaxStoreOps
    /\ i \in 1..Len(CurrentCheckpoints)
    /\ variables' = WithKeys(variables, KeysOf(CurrentCheckpoints[i]))
    /\ store_ops' = store_ops + 1
    /\ last' = [op |-> "set_variable"]
    /\ UNCHANGED <<profile, session_ops, py_compensated_sum, aia_current_section, transitions>>

LifecycleRan(r) ==
    /\ variables' = r.vs
    /\ last' = [op |-> "lifecycle_run", ret |-> r.ret]

\* lifecycle_agent.run(Message.user(content), context)
LifecycleRun(content) ==
    /\ LifecycleRan(Lifecycle_run(content, profile, variables))
    /\ UNCHANGED <<profile, session_ops, py_compensated_sum, aia_current_section,
                   store_ops, transitions>>

LifecycleStepped(r) ==
    /\ variables' = r.vs
    /\ last' = [op |-> "lifecycle_step", ret |-> r.ret]

\* lifecycle_agent.step(context)
LifecycleStep ==
    /\ LifecycleStepped(Lifecycle_step(profile, variables))
    /\ UNCHANGED <<profile, session_ops, py_compensated_sum, aia_current_section,
                   store_ops, transitions>>

TransitionRecorded(to_phase, r) ==
    /\ variables' = r.vs
    /\ last' = [op |-> "record_transition", to_phase |-> to_phase, ret |-> r.ret]

\* lifecycle_agent.record_transition(system_profile, to_phase, authorized_by, context)
RecordTransition(to_phase) ==
    /\ transitions < MaxTransitions
    /\ TransitionRecorded(to_phase,
                          record_transition(profile, to_phase, authorized_by_board, variables))
    /\ transitions' = transitions + 1
    /\ UNCHANGED <<profile, session_ops, py_compensated_sum, aia_current_section, store_ops>>

NextLifecycle ==
    \/ \E key \in CurrentKeys : \E value \in BOOLEAN : SetStore(key, value)
    \/ \E i \in 1..2 : SupplyCheckpoint(i)
    \/ \E content \in LifecycleMessages : LifecycleRun(content)
    \/ LifecycleStep
    \/ \E to_phase \in Phases : RecordTransition(to_phase)

SpecLifecycle == InitLifecycle /\ [][NextLifecycle]_vars

(***************************************************************************)
(* Properties of the aggregation.                                          *)
(***************************************************************************)
\* the AIAReports the state holds: the one stored in the session and the
\* one the last call returned
ReportsInState ==
    (IF "aia_report" \in DOMAIN variables THEN {variables["aia_report"]} ELSE {})
        \cup (IF last.op \in {"run_assessment", "run_aia"} THEN {last.ret} ELSE {})

CompiledReports == {r \in ReportsInState : r.kind = "AIAReport"}

\* the quantities the recommendation rule is stated in
MeanScore(es) == FDivInt(PySum([i \in 1..Len(es) |-> es[i].score], py_compensated_sum), Len(es))

LeastScore(es) ==
    CHOOSE s \in {es[i].score : i \in 1..Len(es)} : \A i \in 1..Len(es) : ~FLt(es[i].score, s)

CriticalCount(es) ==
    Cardinality({ij \in UNION {{<<i, j>> : j \in 1..Len(es[i].findings)} : i \in 1..Len(es)} :
                    es[ij[1]].findings[ij[2]].severity = "critical"})

RuleHolds(rec, avg, min_s, critical_count) ==
    /\ (critical_count > 0 \/ FLt(min_s, Dec(30))) => rec = "do_not_proceed"
    /\ (critical_count = 0 /\ ~FLt(min_s, Dec(30)) /\ ~FLt(avg, Dec(80)) /\ ~FLt(min_s, Dec(60)))
           => rec = "proceed"
    /\ (critical_count = 0 /\ ~FLt(min_s, Dec(30)) /\ (FLt(avg, Dec(80)) \/ FLt(min_s, Dec(60)))
            /\ ~FLt(avg, Dec(50)))
           => rec = "proceed_with_conditions"
    /\ (critical_count = 0 /\ ~FLt(min_s, Dec(30)) /\ FLt(avg, Dec(50)))
           => rec = "requires_further_assessment"

RecommendationFollowsRule(r) ==
    IF r.principle_evaluations = <<>>
    THEN r.overall_recommendation = "requires_further_assessment"
    ELSE RuleHolds(r.overall_recommendation,
                   MeanScore(r.principle_evaluations),
                   LeastScore(r.principle_evaluations),
                   CriticalCount(r.principle_evaluations))

\* C2: the overall recommendation of every compiled report is the stated
\* function of its evaluation list: an empty list gives
\* requires_further_assessment; otherwise a critical finding or a minimum
\* score below 0.3 gives do_not_proceed, else a mean of at least 0.8 with a
\* minimum of at least 0.6 gives proceed, else a mean of at least 0.5 gives
\* proceed_with_conditions, else requires_further_assessment.
C2_RecommendationRule == \A r \in CompiledReports : RecommendationFollowsRule(r)

\* a report over three evaluations with a mean above 0.8 that one critical
\* finding turns into do_not_proceed
C2_Witness ==
    \E r \in CompiledReports :
        /\ Len(r.principle_evaluations) = 3
        /\ CriticalCount(r.principle_evaluations) = 1
        /\ ~FLt(MeanScore(r.principle_evaluations), Dec(80))
        /\ ~FLt(LeastScore(r.principle_evaluations), Dec(60))
        /\ r.overall_recommendation = "do_not_proceed"

\* "Address <principle> gaps before deployment" for the evaluations below 0.7
GapEntries(es) ==
    LET low == SelectSeq([i \in 1..Len(es) |-> i], LAMBDA i : FLt(es[i].score, Dec(70)))
    IN  [k \in 1..Len(low) |-> "Address " \o es[low[k]].principle \o " gaps before deployment"]

\* the recommendation texts of the high and critical findings of one evaluation
UrgentTexts(e) ==
    LET urgent == SelectSeq([j \in 1..Len(e.findings) |-> j],
                            LAMBDA j : e.findings[j].severity \in {"high", "critical"})
    IN  [k \in 1..Len(urgent) |-> e.findings[urgent[k]].recommendation]

RECURSIVE UrgentTextsOfAll(_, _)
UrgentTextsOfAll(es, n) ==
    IF n = 0 THEN <<>> ELSE UrgentTextsOfAll(es, n - 1) \o UrgentTexts(es[n])

\* evaluation by evaluation: its gap entry if it is below 0.7, then its
\* urgent texts
RECURSIVE EntriesByEvaluation(_, _)
EntriesByEvaluation(es, n) ==
    IF n = 0 THEN <<>>
    ELSE EntriesByEvaluation(es, n - 1)
            \o GapEntries(<<es[n]>>) \o UrgentTexts(es[n])

Truncated(xs) == [k \in 1..(IF Len(xs) > 5 THEN 5 ELSE Len(xs)) |-> xs[k]]

OnlyWithConditions(r) ==
    r.overall_recommendation # "proceed_with_conditions" => r.conditions_for_approval = <<>>

\* C6 as the specification states it: empty unless the recommendation is
\* proceed_with_conditions, and then all the gap entries first, then the
\* urgent texts of all evaluations, cut to five
C6_GapsThenFindings ==
    \A r \in CompiledReports :
        /\ OnlyWithConditions(r)
        /\ r.overall_recommendation = "proceed_with_conditions" =>
               r.conditions_for_approval =
                   Truncated(GapEntries(r.principle_evaluations)
                                \o UrgentTextsOfAll(r.principle_evaluations,
                                                    Len(r.principle_evaluations)))

\* C6: conditions_for_approval is empty unless the recommendation is
\* proceed_with_conditions, and is then built evaluation by evaluation, in
\* evaluation order: the entry "Address <principle> gaps before deployment"
\* if the evaluation's score is below 0.7, followed by the recommendation
\* text of each of that evaluation's findings of severity high or critical;
\* the combined list is truncated to its first 5 entries.
C6_ConditionsByEvaluation ==
    \A r \in CompiledReports :
        /\ OnlyWithConditions(r)
        /\ r.overall_recommendation = "proceed_with_conditions" =>
               r.conditions_for_approval =
                   Truncated(EntriesByEvaluation(r.principle_evaluations,
                                                 Len(r.principle_evaluations)))

\* a report with conditions whose list was cut to five and in which an
\* urgent text of an earlier evaluation precedes the gap entry of a later one
C6_Witness ==
    \E r \in CompiledReports :
        /\ r.overall_recommendation = "proceed_with_conditions"
        /\ Len(EntriesByEvaluation(r.principle_evaluations, Len(r.principle_evaluations))) > 5
        /\ Len(r.conditions_for_approval) = 5
        /\ r.conditions_for_approval[1] = "Remedy 1 for accountability"
        /\ r.conditions_for_approval[2] = "Address transparency gaps before deployment"


(***************************************************************************)
(* Properties of the assessment entry points and of the evaluators.        *)
(***************************************************************************)
RegisteredPrinciples == {Principles[i] : i \in 1..Len(Principles)}

\* C1: the report run_assessment returns holds one evaluation per
\* registered principle, six in all, and its overall recommendation is the
\* one the recommendation rule gives for those evaluations.
C1_AssessmentEvaluatesAllSix ==
    last.op = "run_assessment" =>
        /\ last.ret.kind = "AIAReport"
        /\ Len(last.ret.principle_evaluations) = 6
        /\ {last.ret.principle_evaluations[i].principle : i \in 1..6} = RegisteredPrinciples
        /\ RecommendationFollowsRule(last.ret)

\* whether monitoring is confirmed in the context the evaluators were given
MonitoringConfirmed ==
    "monitoring_configured" \in DOMAIN variables /\ variables["monitoring_configured"]

\* the PrincipleEvaluations the state holds: what the last call returned,
\* alone or inside a report, and what the session context stores
EvaluationsInState ==
    (IF last.op \in {"evaluate", "run_principle_evaluation"} /\ last.ret # Exception
     THEN {last.ret} ELSE {})
    \cup UNION {{r.principle_evaluations[i] : i \in 1..Len(r.principle_evaluations)} :
                r \in CompiledReports}
    \cup {variables[principle \o "_evaluation"] :
              principle \in {pr \in RegisteredPrinciples : (pr \o "_evaluation") \in DOMAIN variables}}

Mentions(text, terms) == \E k \in 1..Len(terms) : Contains(Lower(text), terms[k])

SomeItemMentions(items, terms) == \E i \in 1..Len(items) : Mentions(items[i], terms)

Row(holds, hundredths, severity) ==
    [holds |-> holds, hundredths |-> hundredths, severity |-> severity]

\* the check table of section 4.1 of the specification, row by row: whether
\* the row's condition holds for the profile, its deduction in hundredths,
\* and its severity
CheckTable(principle, p) ==
    CASE principle = "accountability" ->
          << Row(p.owner = <<>>, 20, "high"),
             Row(p.operators = <<>>, 10, "medium"),
             Row(p.is_high_risk_eu_ai_act /\ p.applicable_regulations = <<>>, 30, "critical"),
             Row(p.affected_populations = <<>>, 15, "medium"),
             Row(p.known_limitations = <<>>, 10, "medium"),
             Row(p.developers = <<>>, 5, "low") >>
      [] principle = "transparency" ->
          << Row(Len(p.description) < 50, 10, "medium"),
             Row(p.model_architecture = <<>>, 15, "medium"),
             Row(p.training_data_description = <<>>, 20, "high"),
             Row(p.input_data_types = <<>> \/ p.output_data_types = <<>>, 10, "medium"),
             Row(p.use_cases = <<>>, 5, "low"),
             Row(p.prohibited_uses = <<>>, 10, "medium"),
             Row(p.version = DefaultVersion, 5, "low") >>
      [] principle = "fairness" ->
          << Row(p.affected_populations = <<>>, 25, "high"),
             Row(p.training_data_description = <<>>, 20, "high"),
             Row(p.system_type \in {"classification", "recommendation", "nlp"}
                    /\ p.risk_level = "low", 10, "medium"),
             Row(p.known_limitations # <<>>
                    /\ ~SomeItemMentions(p.known_limitations, fairness_terms), 10, "medium"),
             Row(p.is_high_risk_eu_ai_act, 10, "medium"),
             Row(Mentions(p.industry_sector, fairness_sensitive_industries), 10, "high") >>
      [] principle = "security" ->
          << Row(p.input_data_types # <<>>
                    /\ ~SomeItemMentions(p.applicable_regulations, privacy_regs), 20, "high"),
             Row(SomeItemMentions(p.input_data_types, sensitive_types)
                    /\ p.risk_level = "low", 20, "high"),
             Row(Mentions(p.training_data_description, sensitive_types), 10, "medium"),
             Row(p.is_high_risk_eu_ai_act, 10, "medium"),
             Row(p.system_type = "generative", 10, "medium"),
             Row(Mentions(p.industry_sector, high_security_sectors), 10, "high") >>
      [] principle = "robustness" ->
          << Row(p.known_limitations = <<>>, 20, "high"),
             Row(p.current_phase \in {"deployment", "operation_monitoring"}
                    /\ ~MonitoringConfirmed, 20, "high"),
             Row(p.version = DefaultVersion, 5, "low"),
             Row(p.system_type \in {"autonomous", "generative"}, 10, "medium"),
             Row(p.is_high_risk_eu_ai_act, 10, "medium"),
             Row(p.deployment_date /\ ~p.last_assessment_date, 15, "medium") >>
      [] principle = "alignment" ->
          << Row(p.prohibited_uses = <<>>, 15, "medium"),
             Row(p.affected_populations = <<>>, 20, "high"),
             Row(p.system_type = "autonomous", 25, "critical"),
             Row(p.system_type = "generative", 15, "high"),
             Row(p.is_high_risk_eu_ai_act, 10, "high"),
             Row(p.system_type \in {"classification", "recommendation"}
                    /\ Mentions(p.description, <<kw_decision, kw_score>>), 10, "medium"),
             Row(Mentions(p.industry_sector, alignment_sensitive_industries), 10, "high"),
             Row(p.use_cases = <<>>, 5, "low") >>

\* the sum, in hundredths, of the deductions of the rows that hold
RECURSIVE DeductionTotal(_, _)
DeductionTotal(rows, n) ==
    IF n = 0 THEN 0
    ELSE DeductionTotal(rows, n - 1) + (IF rows[n].holds THEN rows[n].hundredths ELSE 0)

\* 1.0 with the deductions of the rows that hold taken off one after another
RECURSIVE Remaining(_, _)
Remaining(rows, n) ==
    IF n = 0 THEN FInt(1)
    ELSE IF rows[n].holds THEN FSub(Remaining(rows, n - 1), Dec(rows[n].hundredths))
         ELSE Remaining(rows, n - 1)

ClampedOnce(x) == IF FLt(x, FInt(0)) THEN FInt(0) ELSE IF FLt(FInt(1), x) THEN FInt(1) ELSE x

\* the decimal value (100 - total) / 100 cut to [0, 1], as the nearest double
DecimalScore(total) == IF total >= 100 THEN FInt(0) ELSE Dec(100 - total)

\* within 2^-50 of each other: the rounding a handful of double operations
\* can accumulate on values of at most 1
RoundingApart(x, y) == MagLt(FAbs(FSub(x, y)).m, <<0, 0, Pow2(13)>>)

\* the findings of the table's rows (row k raises the finding numbered k)
RowFindings(e, k) == {j \in 1..Len(e.findings) : e.findings[j].finding_id = "-00" \o ToString(k)}

ScoreFollowsTable(e, rows) ==
    /\ e.score = ClampedOnce(Remaining(rows, Len(rows)))
    /\ RoundingApart(e.score, DecimalScore(DeductionTotal(rows, Len(rows))))
    /\ \A k \in 1..Len(rows) :
           IF rows[k].holds
           THEN /\ Cardinality(RowFindings(e, k)) = 1
                /\ \A j \in RowFindings(e, k) : e.findings[j].severity = rows[k].severity
           ELSE RowFindings(e, k) = {}

\* C3: the score of every returned evaluation is 1.0 minus the deductions of
\* exactly those rows of the check table of section 4.1 whose condition
\* holds for the profile, taken off a running score and clamped once to
\* [0, 1] at the end (so it is the decimal sum up to the rounding of double
\* arithmetic); each row that holds contributes one finding, of the severity
\* the table lists, and a row that does not hold contributes none.
C3_ScoreIsOneMinusDeductions ==
    \A e \in EvaluationsInState : ScoreFollowsTable(e, CheckTable(e.principle, profile))

\* a robustness evaluation of a deployed system whose monitoring the caller
\* has confirmed, with at least three rows of the table holding
C3_Witness ==
    /\ last.op = "evaluate"
    /\ last.ret.principle = "robustness"
    /\ profile.current_phase = "deployment"
    /\ MonitoringConfirmed
    /\ Cardinality({k \in 1..6 : CheckTable("robustness", profile)[k].holds}) >= 3
    /\ FLt(last.ret.score, Dec(70))

\* C4: the score of every returned evaluation lies in [0.0, 1.0].
C4_ScoreWithinBounds ==
    \A e \in EvaluationsInState : ~FLt(e.score, FInt(0)) /\ ~FLt(FInt(1), e.score)

\* an accountability evaluation of a profile that triggers every deduction
\* the evaluator can apply
C4_Witness ==
    \E e \in EvaluationsInState :
        /\ e.principle = "accountability"
        /\ \A k \in 1..6 : CheckTable("accountability", profile)[k].holds
        /\ Len(e.findings) = 6

\* C5: the compliance status of every returned evaluation is determined by
\* its score alone: compliant iff score >= 0.9, partially_compliant iff
\* 0.6 <= score < 0.9, non_compliant iff score < 0.6; never not_assessed.
C5_StatusFromScore ==
    \A e \in EvaluationsInState :
        /\ e.compliance_status = "compliant" <=> ~FLt(e.score, Dec(90))
        /\ e.compliance_status = "partially_compliant"
               <=> (~FLt(e.score, Dec(60)) /\ FLt(e.score, Dec(90)))
        /\ e.compliance_status = "non_compliant" <=> FLt(e.score, Dec(60))
        /\ e.compliance_status # "not_assessed"

\* an evaluation whose score is exactly 0.9, the lowest compliant score
C5_Witness ==
    \E e \in EvaluationsInState : e.score = Dec(90) /\ e.compliance_status = "compliant"


(***************************************************************************)
(* Properties of the lifecycle tracker.                                    *)
(***************************************************************************)
HasStatus == "lifecycle_status" \in DOMAIN variables

\* the phase the system is in: that of the stored status, or the profile's
\* while no status is stored
CurrentPhase ==
    IF HasStatus THEN variables["lifecycle_status"].current_phase ELSE profile.current_phase

History == IF HasStatus THEN variables["lifecycle_status"].phase_transitions ELSE <<>>

StoredCheckpoints ==
    IF HasStatus THEN variables["lifecycle_status"].current_phase_checkpoints ELSE <<>>

\* the checkpoints the last call has verified against the store: all of the
\* current phase after "verify", the one named in the reply after a step
VerifiedNow ==
    IF last.op = "lifecycle_run" /\ last.ret.kind = "verification_complete"
    THEN {StoredCheckpoints[i] : i \in 1..Len(StoredCheckpoints)}
    ELSE IF last.op = "lifecycle_step" /\ last.ret.kind = "verified_checkpoint"
    THEN {StoredCheckpoints[i] : i \in {k \in 1..Len(StoredCheckpoints) :
                                           StoredCheckpoints[k].checkpoint_id = last.ret.checkpoint}}
    ELSE {}

InStore(key) == key \in DOMAIN variables /\ variables[key]

\* the required artifacts that are absent from the store, in template order
AbsentArtifacts(cp) == SelectSeq(cp.required_artifacts, LAMBDA a : ~InStore(a))

EvidenceForAll(cp) ==
    \A j \in 1..Len(cp.verification_criteria) :
        InStore("evidence_" \o cp.verification_criteria[j].criterion_id)

\* C7: after any verification of a checkpoint against the store, it has
\* passed iff every required artifact is present and every criterion has
\* evidence; when it has not passed it is blocked with a non-empty list of
\* blocking reasons; passed and blocked are never both true or both false.
C7_PassedOrBlocked ==
    \A cp \in VerifiedNow :
        /\ cp.passed <=> (AbsentArtifacts(cp) = <<>> /\ EvidenceForAll(cp))
        /\ ~cp.passed => (cp.blocked /\ cp.blocking_reasons # <<>>)
        /\ cp.passed <=> ~cp.blocked

\* C8: a verification that finds required artifacts absent from the store
\* leaves the checkpoint blocked and not passed, with one blocking reason per
\* absent artifact, each naming its artifact (exactly one reason when
\* exactly one artifact is absent); a verification that finds every
\* artifact and the evidence of every criterion, also after an earlier
\* blocked verification, leaves it passed.
C8_MissingArtifactBlocks ==
    \A cp \in VerifiedNow :
        /\ AbsentArtifacts(cp) # <<>> =>
               /\ cp.blocked
               /\ ~cp.passed
               /\ cp.blocking_reasons =
                      [k \in 1..Len(AbsentArtifacts(cp)) |->
                          "Missing artifact: " \o AbsentArtifacts(cp)[k]]
        /\ (AbsentArtifacts(cp) = <<>> /\ EvidenceForAll(cp)) => cp.passed

\* a checkpoint that has just been verified and passed, and that still
\* carries the single blocking reason of an earlier verification, made while
\* exactly one artifact was absent
C8_Witness ==
    \E cp \in VerifiedNow :
        /\ cp.passed
        /\ Len(cp.blocking_reasons) = 1
        /\ AbsentArtifacts(cp) = <<>>
        /\ EvidenceForAll(cp)

IsSuccessor(from, to) ==
    \E i \in 1..(Len(LifecyclePhase) - 1) : LifecyclePhase[i] = from /\ LifecyclePhase[i + 1] = to

\* C9: the current phase changes only from a phase to its successor in the
\* fixed order, and never changes once it is shutdown.
C9_TransitionsFollowOrder ==
    [][CurrentPhase' # CurrentPhase => IsSuccessor(CurrentPhase, CurrentPhase')]_vars

TemplateIds(phase) ==
    [i \in 1..Len(PHASE_CHECKPOINTS[phase]) |-> PHASE_CHECKPOINTS[phase][i].checkpoint_id]

Unverified(cp) ==
    /\ ~cp.passed
    /\ ~cp.blocked
    /\ cp.blocking_reasons = <<>>
    /\ \A j \in 1..Len(cp.verification_criteria) : ~cp.verification_criteria[j].passed

\* the ids of the stored checkpoints that have passed, in list order
PassedCheckpointIds ==
    LET passed == SelectSeq([i \in 1..Len(StoredCheckpoints) |-> i],
                            LAMBDA i : StoredCheckpoints[i].passed)
    IN  [k \in 1..Len(passed) |-> StoredCheckpoints[passed[k]].checkpoint_id]

\* what a call of record_transition(to_phase, authorized_by) does to the status
TransitionEffect(to_phase, authorized_by) ==
    LET status == variables'["lifecycle_status"]
        entry == status.phase_transitions[Len(status.phase_transitions)]
    IN  /\ "lifecycle_status" \in DOMAIN variables'
        /\ Len(status.phase_transitions) = Len(History) + 1
        /\ entry.from_phase = CurrentPhase
        /\ entry.to_phase = to_phase
        /\ entry.authorized_by = authorized_by
        /\ entry.checkpoints_verified = PassedCheckpointIds
        /\ last'.ret = entry
        /\ [i \in 1..Len(status.current_phase_checkpoints) |->
               status.current_phase_checkpoints[i].checkpoint_id] = TemplateIds(to_phase)
        /\ \A i \in 1..Len(status.current_phase_checkpoints) :
               Unverified(status.current_phase_checkpoints[i])
        /\ status.current_phase = to_phase
        /\ IF to_phase = "shutdown" THEN status.next_phase = None
           ELSE IsSuccessor(to_phase, status.next_phase)
        /\ ~status.ready_for_next_phase

\* no call changes or removes an entry of the transition history
HistoryKept == Len(History') >= Len(History) /\ \A i \in 1..Len(History) : History'[i] = History[i]

VerifiedAll == last.op = "lifecycle_run" /\ last.ret.kind = "verification_complete"

\* what "verify" does to the status: before are the checkpoints it started from
VerifyAllEffect(before) ==
    LET status == variables'["lifecycle_status"]
        after == status.current_phase_checkpoints
    IN  /\ "lifecycle_status" \in DOMAIN variables'
        /\ Len(after) = Len(before)
        /\ \A i \in 1..Len(after) :
               /\ after[i].checkpoint_id = before[i].checkpoint_id
               /\ after[i].passed <=>
                      (AbsentArtifacts(before[i]) = <<>> /\ EvidenceForAll(before[i]))
        /\ status.ready_for_next_phase <=> \A i \in 1..Len(after) : after[i].passed
        /\ status.current_phase = CurrentPhase
        /\ status.phase_transitions = History

\* C11: verifying all checkpoints of the current phase verifies each of them
\* against the store, sets ready_for_next_phase to the conjunction of their
\* passed flags, and stores the updated status in the context.
C11_VerifyAllSetsReady ==
    [][ VerifiedAll' => VerifyAllEffect(CurrentCheckpoints) ]_vars

\* a verification of a phase with two checkpoints that found both passed and
\* stored a status that is ready for the next phase
C11_Witness ==
    /\ VerifiedAll
    /\ HasStatus
    /\ Len(StoredCheckpoints) = 2
    /\ \A i \in 1..2 : StoredCheckpoints[i].passed
    /\ variables["lifecycle_status"].ready_for_next_phase


\* C12: in every state of a stored LifecycleStatus, after initialization and
\* after any verifications and transitions, next_phase is the immediate
\* successor of current_phase in the six-phase order, next_phase is none
\* exactly when current_phase is shutdown, and every checkpoint of
\* current_phase_checkpoints belongs to current_phase.
C12_NextPhaseIsSuccessor ==
    HasStatus =>
        LET status == variables["lifecycle_status"]
        IN  /\ (status.next_phase = None) <=> (status.current_phase = "shutdown")
            /\ status.next_phase # None =>
                   IsSuccessor(status.current_phase, status.next_phase)
            /\ \A i \in 1..Len(status.current_phase_checkpoints) :
                   status.current_phase_checkpoints[i].phase = status.current_phase

\* a status that was moved to validation_verification by a transition and
\* then verified
C12_Witness ==
    /\ VerifiedAll
    /\ Len(History) = 1
    /\ History[1].from_phase # "design_data_models"
    /\ CurrentPhase = "validation_verification"
    /\ variables["lifecycle_status"].next_phase = "deployment"


\* C13: a lifecycle transition advances the system profile: once a status is
\* stored, and so after every record_transition, the profile's current_phase
\* equals the status's current_phase, and a status initialized afresh from the
\* profile, as check_lifecycle does, is in that phase.
C13_ProfileFollowsTransition ==
    HasStatus =>
        /\ profile.current_phase = variables["lifecycle_status"].current_phase
        /\ check_lifecycle(profile).current_phase = variables["lifecycle_status"].current_phase


(***************************************************************************)
(* The agents' entry points on a context that holds no system_profile.     *)
(* The caller may store any other variable; the AIAAgent instance and its  *)
(* section counter are shared with the sessions that do hold a profile.    *)
(***************************************************************************)
\* variables a caller stores before the profile: flags, an earlier
\* evaluation, an earlier report, an artifact
CallerEntries ==
    { [key |-> "monitoring_configured", value |-> TRUE],
      [key |-> "enable_llm_analysis", value |-> FALSE],
      [key |-> "fairness_evaluation",
       value |-> Evaluate("fairness", TestProfile, EmptyContext, LLMRaises)],
      [key |-> "aia_report", value |-> ReportOn(<<>>, FALSE)],
      [key |-> "risk_screening_form", value |-> TRUE],
      [key |-> "fairness_complete", value |-> TRUE] }

InitNoProfile ==
    /\ InitCommon
    /\ profile = TestProfile
    /\ variables = EmptyContext
    /\ py_compensated_sum = FALSE

\* context.set_variable(key, value) by the caller
CallerSets(entry) ==
    /\ store_ops < MaxStoreOps
    /\ variables' = set_variable(variables, entry.key, entry.value)
    /\ store_ops' = store_ops + 1
    /\ last' = [op |-> "set_variable"]
    /\ UNCHANGED <<profile, session_ops, py_compensated_sum, aia_current_section, transitions>>

\* aia_agent.step on another context, one that holds a profile: only the
\* agent's section counter changes here
AIAStepElsewhere ==
    /\ aia_current_section < Len(AIASections)
    /\ aia_current_section' = aia_current_section + 1
    /\ last' = [op |-> "set_variable"]
    /\ UNCHANGED <<profile, variables, session_ops, py_compensated_sum, store_ops, transitions>>

\* the context and the reply after an entry point has returned r
Called(op, r) ==
    /\ variables' = r.vs
    /\ last' = [op |-> op, ret |-> r.ret]
    /\ UNCHANGED <<profile, session_ops, py_compensated_sum, store_ops, transitions>>

PrincipleAgentRun(principle, content, llm) ==
    /\ ~SessionOpen
    /\ Called("agent_run", RAIAgent_run(principle, content, profile, variables, llm))
    /\ UNCHANGED aia_current_section

PrincipleAgentStep(principle, llm) ==
    /\ ~SessionOpen
    /\ Called("agent_step", RAIAgent_step(principle, profile, variables, llm))
    /\ UNCHANGED aia_current_section

OrchestratorRun(content, llm) ==
    /\ ~SessionOpen
    /\ Called("orchestrator_run",
              Orchestrator_run(content, profile, variables, llm.route, llm.agent,
                               py_compensated_sum))
    /\ UNCHANGED aia_current_section

LifecycleAgentRun(content) ==
    /\ ~SessionOpen
    /\ Called("lifecycle_run", Lifecycle_run(content, profile, variables))
    /\ UNCHANGED aia_current_section

LifecycleAgentStep ==
    /\ ~SessionOpen
    /\ Called("lifecycle_step", Lifecycle_step(profile, variables))
    /\ UNCHANGED aia_current_section

AIAAgentRun(content) ==
    /\ ~SessionOpen
    /\ Called("aia_run", AIA_run(content, variables, py_compensated_sum))
    /\ UNCHANGED aia_current_section

AIAStepCalled(r) ==
    /\ Called("aia_step", r)
    /\ aia_current_section' = r.current_section

AIAAgentStep ==
    /\ ~SessionOpen
    /\ AIAStepCalled(AIA_step(aia_current_section, variables, py_compensated_sum))

AgentMessages == {msg_evaluate_fairness, msg_assess_system, msg_what_to_recommend, msg_hello}

NextNoProfile ==
    \/ \E entry \in CallerEntries : CallerSets(entry)
    \/ AIAStepElsewhere
    \/ \E principle \in PrincipleSet : \E content \in AgentMessages : \E llm \in LLMOutcomes :
           PrincipleAgentRun(principle, content, llm)
    \/ \E principle \in PrincipleSet : \E llm \in LLMOutcomes : PrincipleAgentStep(principle, llm)
    \/ \E content \in QueryMessages : \E llm \in ScriptsFor(content) : OrchestratorRun(content, llm)
    \/ \E content \in LifecycleMessages : LifecycleAgentRun(content)
    \/ LifecycleAgentStep
    \/ \E content \in AIAMessages : AIAAgentRun(content)
    \/ AIAAgentStep

SpecNoProfile == InitNoProfile /\ [][NextNoProfile]_vars

\* C14: every workflow entry point called on a context that holds no
\* system_profile returns a message, or None from a step, instead of raising,
\* and leaves the context variables unchanged.
C14_NoProfileNoRaise ==
    [][ last'.op # "set_variable" =>
            /\ last'.ret # Exception
            /\ variables' = variables
            /\ last'.op \in {"agent_step", "lifecycle_step"} => last'.ret.kind = None ]_vars


\* ---------------------------------------------------------------------------
\* Properties of the evaluators' determinism
\* ---------------------------------------------------------------------------

\* what an evaluation reports
Outcome(evaluation) ==
    <<evaluation.score, evaluation.compliance_status, evaluation.findings>>

\* the accountability evaluation of the profile with LLM analysis switched
\* off
RuleBasedAccountability ==
    AccountabilityEvaluate(profile, set_variable(variables, "enable_llm_analysis", FALSE),
                           LLMRaises)

Reevaluated(llm) == Evaluate(last.principle, profile, variables, llm)

\* C15: the accountability evaluator returns the same score, status and
\* findings whether the provider replies, raises or LLM analysis is disabled,
\* and evaluating again with any evaluator, whatever the provider then does,
\* returns the score and findings of the evaluation just made.
C15_LLMNeverInfluences ==
    /\ \A llm \in LLMOutcomes : \A enabled \in BOOLEAN :
           Outcome(AccountabilityEvaluate(
                       profile, set_variable(variables, "enable_llm_analysis", enabled), llm))
               = Outcome(RuleBasedAccountability)
    /\ last.op = "evaluate" =>
           \A llm \in LLMOutcomes : Outcome(Reevaluated(llm)) = Outcome(last.ret)

\* the accountability evaluator has run with LLM analysis enabled and has
\* findings to report
C15_Witness ==
    /\ last.op = "evaluate"
    /\ last.principle = "accountability"
    /\ get_variable(variables, "enable_llm_analysis", TRUE)
    /\ last.ret.findings # <<>>
    /\ last.ret.score # FInt(1)


\* orders in which the six agents can be registered with the orchestrator:
\* that of RAIRunner, its reverse and two rotations
RegistrationOrders ==
    { Principles,
      <<"alignment", "robustness", "security", "fairness", "transparency", "accountability">>,
      <<"fairness", "security", "robustness", "alignment", "accountability", "transparency">>,
      <<"security", "accountability", "alignment", "transparency", "robustness", "fairness">> }

\* the context a full assessment of the profile leaves when the agents run
\* in the given order
AssessedInOrder(principle_agents) ==
    FullAssessmentInOrder(principle_agents, profile, set_variable(variables, "system_profile", TRUE),
                          LLMRaises, py_compensated_sum).vs

SamePrincipleResults(a, b) ==
    \A principle \in RegisteredPrinciples :
        /\ a[EvaluationKey(principle)].score = b[EvaluationKey(principle)].score
        /\ a[EvaluationKey(principle)].findings = b[EvaluationKey(principle)].findings

\* C16: whatever order the six evaluations of a full assessment run in, each
\* principle's score and findings are the same, and so are the
\* overall_recommendation and the conditions_for_approval of the AIAReport.
C16_OrderIndependent ==
    \A principle_agents \in RegistrationOrders :
        /\ SamePrincipleResults(AssessedInOrder(principle_agents), AssessedInOrder(Principles))
        /\ AssessedInOrder(principle_agents)["aia_report"].overall_recommendation
               = AssessedInOrder(Principles)["aia_report"].overall_recommendation
        /\ AssessedInOrder(principle_agents)["aia_report"].conditions_for_approval
               = AssessedInOrder(Principles)["aia_report"].conditions_for_approval


\* ---------------------------------------------------------------------------
\* Properties relating findings to the score
\* ---------------------------------------------------------------------------

\* the rule checks the evaluator of a principle runs on the profile
ChecksOf(principle) ==
    CASE principle = "accountability" -> AccountabilityChecks(profile)
      [] principle = "transparency"   -> TransparencyChecks(profile)
      [] principle = "fairness"       -> FairnessChecks(profile)
      [] principle = "security"       -> SecurityChecks(profile)
      [] principle = "robustness"     -> RobustnessChecks(profile, variables)
      [] principle = "alignment"      -> AlignmentChecks(profile)

\* C17: in every evaluator a rule check that appends a Finding also subtracts
\* a positive amount from the score; hence every returned evaluation with at
\* least one finding has a score below 1.0, and one with score 1.0 has no
\* findings.
C17_FindingsLowerScore ==
    /\ \A principle \in RegisteredPrinciples :
           \A i \in 1..Len(ChecksOf(principle)) : ChecksOf(principle)[i].deduction > 0
    /\ \A e \in EvaluationsInState :
           /\ e.findings # <<>> => FLt(e.score, FInt(1))
           /\ e.score = FInt(1) => e.findings = <<>>


\* ---------------------------------------------------------------------------
\* Properties of the lifecycle tracker's use of the store
\* ---------------------------------------------------------------------------

\* the keys of a context other than the tracker's own variable
StoreKeys(vs) == DOMAIN vs \ {"lifecycle_status"}

StoreUntouched ==
    /\ StoreKeys(variables') = StoreKeys(variables)
    /\ \A key \in StoreKeys(variables) : variables'[key] = variables[key]

\* C18: every operation of the lifecycle tracker (run with any message, step,
\* record_transition) leaves every artifact key and every evidence key of
\* the store as it was, adding and changing no key but lifecycle_status.
C18_TrackerOnlyReadsStore ==
    [][ last'.op \in {"lifecycle_run", "lifecycle_step", "record_transition"}
            => StoreUntouched ]_vars

\* a transition has been recorded over a store that holds the artifacts and
\* the evidence of a checkpoint, after a verification that passed it
C18_Witness ==
    /\ last.op = "record_transition"
    /\ HasStatus
    /\ History # <<>>
    /\ History[Len(History)].checkpoints_verified # <<>>
    /\ \E key \in StoreKeys(variables) \ {"system_profile"} : variables[key]


\* ---------------------------------------------------------------------------
\* Properties of the checkpoint templates
\* ---------------------------------------------------------------------------

CriterionIds(criteria) == [j \in 1..Len(criteria) |-> criteria[j].criterion_id]

\* what a checkpoint takes from its template
StaticPart(checkpoint) ==
    [ checkpoint_id |-> checkpoint.checkpoint_id,
      phase |-> checkpoint.phase,
      required_artifacts |-> checkpoint.required_artifacts,
      verification_criteria |-> CriterionIds(checkpoint.verification_criteria) ]

\* what the template of a phase lists
TemplateOf(phase) ==
    [ i \in 1..Len(PHASE_CHECKPOINTS[phase]) |->
        [ checkpoint_id |-> PHASE_CHECKPOINTS[phase][i].checkpoint_id,
          phase |-> phase,
          required_artifacts |-> PHASE_CHECKPOINTS[phase][i].required_artifacts,
          verification_criteria |-> PHASE_CHECKPOINTS[phase][i].verification_criteria ] ]

FollowsTemplate(status) ==
    /\ Len(status.current_phase_checkpoints) = Len(TemplateOf(status.current_phase))
    /\ \A i \in 1..Len(status.current_phase_checkpoints) :
           StaticPart(status.current_phase_checkpoints[i]) = TemplateOf(status.current_phase)[i]

AllUnverified(status) ==
    \A i \in 1..Len(status.current_phase_checkpoints) :
        Unverified(status.current_phase_checkpoints[i])

\* the step initialises the status and does nothing else to it: a transition,
\* or a status request or a step on a context that holds no status
InitialisedOnly ==
    \/ last'.op = "record_transition"
    \/ /\ ~HasStatus
       /\ last'.op \in {"lifecycle_run", "lifecycle_step"}
       /\ last'.ret.kind \in {"lifecycle_status", "initialized_lifecycle_tracking"}

\* C19: a status that is initialised, on first access or by a transition, has
\* the checkpoints the template lists for its phase (ids, required artifacts,
\* criteria), every one unverified, whatever was verified or recorded before;
\* and no operation alters what a stored checkpoint took from the template.
C19_InitialisationIsTemplateLookup ==
    [][ HasStatus' =>
            /\ FollowsTemplate(variables'["lifecycle_status"])
            /\ InitialisedOnly => AllUnverified(variables'["lifecycle_status"]) ]_vars

\* a transition has re-initialised the status after both checkpoints of the
\* phase it leaves had been verified and passed
C19_Witness ==
    /\ last.op = "record_transition"
    /\ Len(last.ret.checkpoints_verified) = 2
    /\ HasStatus
    /\ CurrentPhase = last.to_phase
    /\ FollowsTemplate(variables["lifecycle_status"])
    /\ AllUnverified(variables["lifecycle_status"])


\* ---------------------------------------------------------------------------
\* Properties of generate_recommendations
\* ---------------------------------------------------------------------------

Recommended == last.op = "generate_recommendations"

\* the recommendation texts of the findings, in finding order
RecommendationTexts(findings) == [i \in 1..Len(findings) |-> findings[i].recommendation]

\* the texts with the accountability agent's mark on those of high and
\* critical findings
MarkedTexts(principle, findings) ==
    [ i \in 1..Len(findings) |->
        IF principle = "accountability" /\ findings[i].severity \in {"high", "critical"}
        THEN "[IMMEDIATE] " \o findings[i].recommendation
        ELSE findings[i].recommendation ]

\* the entries after the first n
After(entries, n) == SubSeq(entries, n + 1, Len(entries))

\* what follows the findings' entries: the first block iff score < 0.7, then
\* the second iff score < 0.5, and nothing else
BlocksByScore(evaluation, rest) ==
    LET first == general_recommendations(evaluation.principle)
        second == urgent_recommendations(evaluation.principle)
        below_07 == FLt(evaluation.score, Dec(70))
        below_05 == FLt(evaluation.score, Dec(50))
    IN  /\ below_05 => below_07
        /\ rest = (IF below_07 THEN first ELSE <<>>) \o (IF below_05 THEN second ELSE <<>>)
        /\ below_07 <=> (Len(rest) >= Len(first) /\ SubSeq(rest, 1, Len(first)) = first)
        /\ below_05 <=> Len(rest) = Len(first) + Len(second)

\* C20 as stated: generate_recommendations returns one entry per finding,
\* equal to that finding's recommendation text, then the first generic block
\* iff score < 0.7, then the second iff score < 0.5, and nothing else.
C20_FindingTextsThenBlocks ==
    Recommended =>
        /\ Len(last.ret) >= Len(last.evaluation.findings)
        /\ SubSeq(last.ret, 1, Len(last.evaluation.findings))
               = RecommendationTexts(last.evaluation.findings)
        /\ BlocksByScore(last.evaluation, After(last.ret, Len(last.evaluation.findings)))

\* C20: generate_recommendations returns one entry per finding, in finding
\* order: the finding's recommendation text, which the accountability agent
\* prefixes with "[IMMEDIATE] " when the finding is high or critical; then
\* the evaluator's first generic block iff score < 0.7, then its second iff
\* score < 0.5 (so never the second without the first), and nothing else.
C20_MarkedTextsThenBlocks ==
    Recommended =>
        /\ Len(last.ret) >= Len(last.evaluation.findings)
        /\ SubSeq(last.ret, 1, Len(last.evaluation.findings))
               = MarkedTexts(last.evaluation.principle, last.evaluation.findings)
        /\ BlocksByScore(last.evaluation, After(last.ret, Len(last.evaluation.findings)))

\* the accountability agent has made recommendations for an evaluation with
\* a high or critical finding and a score below 0.5
C20_Witness ==
    /\ Recommended
    /\ last.evaluation.principle = "accountability"
    /\ \E i \in 1..Len(last.evaluation.findings) :
           last.evaluation.findings[i].severity \in {"high", "critical"}
    /\ FLt(last.evaluation.score, Dec(50))
    /\ Len(last.ret) = Len(last.evaluation.findings) + 7


(***************************************************************************)
(* Risk: the 5x5 risk matrix of rai/models/risk_assessment.py.             *)
(***************************************************************************)
\* Likelihood, in declaration order
Likelihood == <<"rare", "unlikely", "possible", "likely", "almost_certain">>

\* Impact, in declaration order
Impact == <<"negligible", "minor", "moderate", "major", "catastrophic">>

Likelihoods == {Likelihood[i] : i \in 1..Len(Likelihood)}

Impacts == {Impact[i] : i \in 1..Len(Impact)}

likelihood_map ==
    [ l \in Likelihoods |->
        CASE l = "rare" -> 1
          [] l = "unlikely" -> 2
          [] l = "possible" -> 3
          [] l = "likely" -> 4
          [] l = "almost_certain" -> 5 ]

impact_map ==
    [ i \in Impacts |->
        CASE i = "negligible" -> 1
          [] i = "minor" -> 2
          [] i = "moderate" -> 3
          [] i = "major" -> 4
          [] i = "catastrophic" -> 5 ]

\* Risk.risk_score
risk_score(risk) == likelihood_map[risk.likelihood] * impact_map[risk.impact]

\* risk_level with < for <=
risk_level_strict(risk) ==
    IF risk_score(risk) < 4 THEN "low"
    ELSE IF risk_score(risk) < 9 THEN "medium"
    ELSE IF risk_score(risk) < 16 THEN "high"
    ELSE "critical"

\* Risk.risk_level
risk_level(risk) ==
    IF risk_score(risk) <= 4 THEN "low"
    ELSE IF risk_score(risk) <= 9 THEN "medium"
    ELSE IF risk_score(risk) <= 16 THEN "high"
    ELSE "critical"

\* the Risk object the caller holds is carried in last.risk
HoldsRisk == "risk" \in DOMAIN last

InitRisk ==
    /\ InitCommon
    /\ py_compensated_sum = FALSE
    /\ profile = TestProfile
    /\ variables = EmptyContext

\* Risk(likelihood=..., impact=...)
NewRisk(likelihood, impact) ==
    /\ ~HoldsRisk
    /\ last' = [op |-> "Risk", risk |-> [likelihood |-> likelihood, impact |-> impact]]
    /\ UNCHANGED <<profile, variables, session_ops, py_compensated_sum,
                   aia_current_section, store_ops, transitions>>

\* risk.likelihood = likelihood
SetLikelihood(likelihood) ==
    /\ HoldsRisk
    /\ last' = [op |-> "set_likelihood", risk |-> [last.risk EXCEPT !.likelihood = likelihood]]
    /\ UNCHANGED <<profile, variables, session_ops, py_compensated_sum,
                   aia_current_section, store_ops, transitions>>

\* risk.impact = impact
SetImpact(impact) ==
    /\ HoldsRisk
    /\ last' = [op |-> "set_impact", risk |-> [last.risk EXCEPT !.impact = impact]]
    /\ UNCHANGED <<profile, variables, session_ops, py_compensated_sum,
                   aia_current_section, store_ops, transitions>>

\* risk.risk_score
ReadRiskScore ==
    /\ HoldsRisk
    /\ last' = [op |-> "risk_score", risk |-> last.risk, ret |-> risk_score(last.risk)]
    /\ UNCHANGED <<profile, variables, session_ops, py_compensated_sum,
                   aia_current_section, store_ops, transitions>>

\* risk.risk_level
ReadRiskLevel ==
    /\ HoldsRisk
    /\ last' = [op |-> "risk_level", risk |-> last.risk, ret |-> risk_level(last.risk)]
    /\ UNCHANGED <<profile, variables, session_ops, py_compensated_sum,
                   aia_current_section, store_ops, transitions>>

NextRisk ==
    \/ \E likelihood \in Likelihoods : \E impact \in Impacts : NewRisk(likelihood, impact)
    \/ \E likelihood \in Likelihoods : SetLikelihood(likelihood)
    \/ \E impact \in Impacts : SetImpact(impact)
    \/ ReadRiskScore
    \/ ReadRiskLevel

SpecRisk == InitRisk /\ [][NextRisk]_vars

\* ---------------------------------------------------------------------------
\* Properties of the risk matrix
\* ---------------------------------------------------------------------------

\* the position of a value in its scale
RankIn(scale, value) == CHOOSE k \in 1..Len(scale) : scale[k] = value

LevelRank(level) == RankIn(<<"low", "medium", "high", "critical">>, level)

\* the band of a score
BandOf(score) ==
    IF score <= 4 THEN "low"
    ELSE IF score >= 5 /\ score <= 9 THEN "medium"
    ELSE IF score >= 10 /\ score <= 16 THEN "high"
    ELSE "critical"

\* C21: the score read from a Risk is likelihood rank x impact rank, a value
\* in 1..25, and the level read from it is low for a score <= 4, medium for
\* 5..9, high for 10..16, critical above 16, both following the likelihood
\* and impact the Risk holds when it is read; and a read after the likelihood
\* or the impact has been raised never gives a lower level than the level of
\* the Risk before.
C21_RiskMatrix ==
    [][ /\ last'.op = "risk_score" =>
            /\ last'.ret = RankIn(Likelihood, last.risk.likelihood)
                               * RankIn(Impact, last.risk.impact)
            /\ last'.ret \in 1..25
        /\ last'.op = "risk_level" =>
            last'.ret = BandOf(RankIn(Likelihood, last.risk.likelihood)
                                   * RankIn(Impact, last.risk.impact))
        /\ (/\ last'.op \in {"set_likelihood", "set_impact"}
            /\ RankIn(Likelihood, last'.risk.likelihood) >= RankIn(Likelihood, last.risk.likelihood)
            /\ RankIn(Impact, last'.risk.impact) >= RankIn(Impact, last.risk.impact))
               => LevelRank(risk_level(last'.risk)) >= LevelRank(risk_level(last.risk)) ]_vars

\* the level of a possible / major risk has been read: score 12, high
C21_Witness ==
    /\ last.op = "risk_level"
    /\ last.risk = [likelihood |-> "possible", impact |-> "major"]
    /\ last.ret = "high"


(***************************************************************************)
(* The lifecycle agent driven by step alone, as AgentRunner.run_loop       *)
(* drives it: step is called again and again while the caller may supply   *)
(* artifacts and evidence.                                                 *)
(***************************************************************************)
NextLifecycleSteps ==
    \/ \E key \in CurrentKeys : \E value \in BOOLEAN : SetStore(key, value)
    \/ \E i \in 1..2 : SupplyCheckpoint(i)
    \/ LifecycleStep

\* step is called as long as a call changes anything
SpecLifecycleSteps == InitLifecycle /\ [][NextLifecycleSteps]_vars /\ WF_vars(LifecycleStep)

\* ---------------------------------------------------------------------------
\* Properties of repeated steps
\* ---------------------------------------------------------------------------

\* step has just verified the checkpoint with this id
StepVerified(checkpoint_id) ==
    /\ last.op = "lifecycle_step"
    /\ last.ret.kind = "verified_checkpoint"
    /\ last.ret.checkpoint = checkpoint_id

\* C22: once the status is initialised, step returns None exactly when no
\* checkpoint of the phase is incomplete, and repeated steps verify every
\* checkpoint of the current phase at least once.
C22_StepsVerifyEveryCheckpoint ==
    /\ [][ (HasStatus /\ last'.op = "lifecycle_step") =>
               (last'.ret.kind = None
                    <=> IncompleteIndexes(variables["lifecycle_status"]) = {}) ]_vars
    /\ \A phase \in Phases : \A i \in 1..Len(PHASE_CHECKPOINTS[phase]) :
           profile.current_phase = phase
               => <>StepVerified(PHASE_CHECKPOINTS[phase][i].checkpoint_id)


\* ---------------------------------------------------------------------------
\* Properties of the AIA agent driven by step
\* ---------------------------------------------------------------------------

\* "aia_section_<name>" of the section with this name
SectionKeyOf(name) == "aia_section_" \o name

\* C23: on a context with a system profile each of the first six calls of
\* AIAAgent.step assesses one section, in the order context, data_model,
\* impact, risk_mitigation, governance, monitoring, and stores it under
\* aia_section_<name>; the call after the sixth compiles the report, and
\* after it the compiled AIAReport is in the context under aia_report.
C23_StepsThenStoredReport ==
    [][ (HasProfile(variables) /\ last'.op = "aia_step") =>
            IF aia_current_section < 6
            THEN /\ aia_current_section' = aia_current_section + 1
                 /\ last'.ret.kind = "section_complete"
                 /\ DOMAIN variables'
                        = DOMAIN variables \cup {SectionKeyOf(AIASections[aia_current_section'])}
                 /\ \A key \in DOMAIN variables :
                        key # SectionKeyOf(AIASections[aia_current_section'])
                            => variables'[key] = variables[key]
            ELSE /\ last'.ret.kind = "aia_complete"
                 /\ "aia_report" \in DOMAIN variables'
                 /\ variables'["aia_report"]
                        = ReportOn(get_variable(variables, "principle_evaluations", <<>>),
                                   py_compensated_sum) ]_vars


(***************************************************************************)
(* A full assessment whose registered agents may fail: raising is the set  *)
(* of principles whose agent's evaluate raises an exception.               *)
(***************************************************************************)
\* the loop of _run_full_assessment with a raise that leaves the loop
RECURSIVE EvaluatedUntilRaise(_, _, _, _, _, _)
EvaluatedUntilRaise(principle_agents, raising, system_profile, vs, llm, n) ==
    IF n = 0 THEN [vs |-> vs, results |-> <<>>]
    ELSE IF \E k \in 1..n : principle_agents[k] \in raising
    THEN EvaluatedUntilRaise(principle_agents, raising, system_profile, vs, llm, n - 1)
    ELSE EvaluatedNext(EvaluatedUntilRaise(principle_agents, raising, system_profile, vs, llm, n - 1),
                       principle_agents[n], system_profile, llm)

\* the loop of _run_full_assessment after its first n rounds: try
\* agent.evaluate, append and store the evaluation; except Exception: only a
\* status line is written
RECURSIVE EvaluatedExcept(_, _, _, _, _, _)
EvaluatedExcept(principle_agents, raising, system_profile, vs, llm, n) ==
    IF n = 0 THEN [vs |-> vs, results |-> <<>>]
    ELSE IF principle_agents[n] \in raising
    THEN EvaluatedExcept(principle_agents, raising, system_profile, vs, llm, n - 1)
    ELSE EvaluatedNext(EvaluatedExcept(principle_agents, raising, system_profile, vs, llm, n - 1),
                       principle_agents[n], system_profile, llm)

\* _run_full_assessment: the loop, principle_evaluations, then the AIA agent
FullAssessmentExcept(principle_agents, raising, system_profile, vs, llm, compensated) ==
    IF ~HasProfile(vs) THEN Reply(vs, "error_no_profile")
    ELSE Reply(AIA_run(kw_full_assessment,
                       WithEvaluations(EvaluatedExcept(principle_agents, raising, system_profile,
                                                       vs, llm, Len(principle_agents))),
                       compensated).vs,
               "rai_assessment_complete")

InitFaulty ==
    /\ InitCommon
    /\ py_compensated_sum \in BOOLEAN
    /\ profile \in BaseProfiles
    /\ variables = [system_profile |-> TRUE]

FullyAssessed(raising, r) ==
    /\ variables' = r.vs
    /\ last' = [op |-> "full_assessment", raising |-> raising, ret |-> r.ret]

\* orchestrator.run(Message.user("full assessment"), context) while the
\* agents of the principles in raising fail
FullAssessment(raising) ==
    /\ last.op = "none"
    /\ FullyAssessed(raising,
                     FullAssessmentExcept(Principles, raising, profile, variables, LLMRaises,
                                          py_compensated_sum))
    /\ UNCHANGED <<profile, session_ops, py_compensated_sum, aia_current_section,
                   store_ops, transitions>>

NextFaulty == \E raising \in SUBSET PrincipleSet : FullAssessment(raising)

SpecFaulty == InitFaulty /\ [][NextFaulty]_vars

\* ---------------------------------------------------------------------------
\* Properties of a full assessment with failing evaluators
\* ---------------------------------------------------------------------------

\* the principles whose evaluator completed, in registration order
RECURSIVE Completed(_, _)
Completed(raising, n) ==
    IF n = 0 THEN <<>>
    ELSE IF Principles[n] \in raising THEN Completed(raising, n - 1)
    ELSE Append(Completed(raising, n - 1), Principles[n])

\* C24: after a full assessment in which some evaluators raised, the run has
\* completed, every other evaluator has executed and its evaluation is
\* stored, principle_evaluations is exactly the list of the evaluations that
\* completed, in registration order, and the compiled report carries that
\* same list with the recommendation computed from all of it.
C24_FailuresDoNotAbort ==
    last.op = "full_assessment" =>
        LET done == Completed(last.raising, Len(Principles))
            evaluations == variables["principle_evaluations"]
        IN  /\ last.ret.kind = "rai_assessment_complete"
            /\ Len(evaluations) = Len(done)
            /\ \A i \in 1..Len(done) :
                   /\ evaluations[i].principle = done[i]
                   /\ evaluations[i] = Evaluate(done[i], profile, variables, LLMRaises)
                   /\ variables[EvaluationKey(done[i])] = evaluations[i]
            /\ \A principle \in last.raising : EvaluationKey(principle) \notin DOMAIN variables
            /\ "aia_report" \in DOMAIN variables
            /\ variables["aia_report"].principle_evaluations = evaluations
            /\ variables["aia_report"].overall_recommendation
                   = _determine_recommendation(evaluations, py_compensated_sum)

\* the fairness and robustness evaluators raised; the four others are in
\* the report
C24_Witness ==
    /\ last.op = "full_assessment"
    /\ last.raising = {"fairness", "robustness"}
    /\ Len(variables["aia_report"].principle_evaluations) = 4
    /\ variables["aia_report"].principle_evaluations[3].principle = "security"


(***************************************************************************)
(* AgentRunner.run_loop (orchestration/runner.py): the loop runs one       *)
(* iteration per step of the model.  Its frame (the Context counters, the  *)
(* result list, the context messages) is carried in last; agent.step is    *)
(* abstract, so each call returns None or a message of the agent's choice. *)
(***************************************************************************)
\* the largest max_iterations a runner is built with
MaxIterations == 4

\* what agent.step can return: None, or one of three messages
StepResponses == {None, "response a", "response b", "response c"}

\* Context.increment_iteration with <= for <
increment_iteration_inclusive(current_iteration, max_iterations) ==
    [ current_iteration |-> current_iteration + 1,
      ret |-> current_iteration + 1 <= max_iterations ]

\* Context.increment_iteration
increment_iteration(current_iteration, max_iterations) ==
    [ current_iteration |-> current_iteration + 1,
      ret |-> current_iteration + 1 < max_iterations ]

InitRunLoop ==
    /\ InitCommon
    /\ py_compensated_sum = FALSE
    /\ profile = TestProfile
    /\ variables = EmptyContext

InRunLoop == last.op = "run_loop"

\* AgentRunner(agent, max_iterations).run_loop(initial_message) up to the
\* while: the context holds the initial message, results is empty
RunLoopCalled(max_iterations) ==
    /\ last.op = "none"
    /\ last' = [ op |-> "run_loop",
                 pc |-> "while",
                 max_iterations |-> max_iterations,
                 current_iteration |-> 0,
                 calls |-> 0,
                 response |-> None,
                 results |-> <<>>,
                 messages |-> <<"initial message">> ]
    /\ UNCHANGED <<profile, variables, session_ops, py_compensated_sum,
                   aia_current_section, store_ops, transitions>>

\* the loop test fails: return results
RunLoopExhausted(incremented) ==
    last' = [last EXCEPT !.pc = "returned",
                         !.current_iteration = incremented.current_iteration]

\* one iteration: response = await agent.step(context); break on None,
\* else append it to results and to the context messages
RunLoopStepped(incremented, response) ==
    last' = [last EXCEPT
               !.pc = IF response = None THEN "returned" ELSE "while",
               !.current_iteration = incremented.current_iteration,
               !.calls = @ + 1,
               !.response = response,
               !.results = IF response = None THEN @ ELSE Append(@, response),
               !.messages = IF response = None THEN @ ELSE Append(@, response)]

\* while context.increment_iteration(): ...
RunLoopIteration(response) ==
    /\ InRunLoop
    /\ last.pc = "while"
    /\ IF increment_iteration(last.current_iteration, last.max_iterations).ret
       THEN RunLoopStepped(increment_iteration(last.current_iteration, last.max_iterations),
                           response)
       ELSE RunLoopExhausted(increment_iteration(last.current_iteration, last.max_iterations))
    /\ UNCHANGED <<profile, variables, session_ops, py_compensated_sum,
                   aia_current_section, store_ops, transitions>>

NextRunLoop ==
    \/ \E max_iterations \in 1..MaxIterations : RunLoopCalled(max_iterations)
    \/ \E response \in StepResponses : RunLoopIteration(response)

\* a call of run_loop keeps running: the loop is not suspended for ever
SpecRunLoop == InitRunLoop /\ [][NextRunLoop]_vars /\ WF_vars(NextRunLoop)

\* ---------------------------------------------------------------------------
\* Properties of run_loop
\* ---------------------------------------------------------------------------

\* C25: run_loop with max_iterations = N >= 1 calls agent.step at most N - 1
\* times; it stops at the first step that returns None; every response that
\* is not None is appended, in order, to the result list and to the context
\* messages, and nothing else is; and every call of run_loop returns.
C25_RunLoopTerminates ==
    /\ [](InRunLoop =>
             /\ last.calls <= last.max_iterations - 1
             /\ last.messages = <<"initial message">> \o last.results
             /\ (last.calls > 0 /\ last.response = None) => last.pc = "returned")
    /\ [][ (InRunLoop /\ last'.calls > last.calls) =>
               /\ last.pc = "while"
               /\ last'.calls = last.calls + 1
               /\ last'.results = IF last'.response = None THEN last.results
                                  ELSE Append(last.results, last'.response) ]_vars
    /\ [][ (InRunLoop /\ last.pc = "returned") => last' = last ]_vars
    /\ (InRunLoop ~> (InRunLoop /\ last.pc = "returned"))

\* a runner with max_iterations = 4 has returned after three steps, none of
\* which returned None
C25_Witness ==
    /\ InRunLoop
    /\ last.pc = "returned"
    /\ last.max_iterations = 4
    /\ last.calls = 3
    /\ last.results = <<"response b", "response a", "response c">>
    /\ last.messages = <<"initial message", "response b", "response a", "response c">>


(***************************************************************************)
(* The principle agents driven by step on one context, with or without a   *)
(* system profile.                                                         *)
(***************************************************************************)
InitAgentSteps ==
    /\ InitCommon
    /\ py_compensated_sum = FALSE
    /\ profile \in BaseProfiles
    /\ variables \in {EmptyContext, [system_profile |-> TRUE]}

AgentStepped(principle, r) ==
    /\ variables' = r.vs
    /\ last' = [op |-> "agent_step", principle |-> principle, ret |-> r.ret]

\* agent.step(context) of the agent of a principle
AgentStep(principle, llm) ==
    /\ AgentStepped(principle, RAIAgent_step(principle, profile, variables, llm))
    /\ UNCHANGED <<profile, session_ops, py_compensated_sum, aia_current_section,
                   store_ops, transitions>>

NextAgentSteps == \E principle \in PrincipleSet : \E llm \in LLMOutcomes : AgentStep(principle, llm)

SpecAgentSteps == InitAgentSteps /\ [][NextAgentSteps]_vars

\* ---------------------------------------------------------------------------
\* Properties of the principle agents' step
\* ---------------------------------------------------------------------------

\* the step is the first call of this principle's agent on the context
FirstStepOf(principle) == EvaluationKey(principle) \notin DOMAIN variables

\* C26: on a context with a system profile the first step of a principle's
\* agent stores <principle>_evaluation and sets <principle>_complete and
\* nothing else; every later step of that agent returns None and changes no
\* variable; on a context without a profile step returns None and changes
\* nothing.  So a stored evaluation is never replaced.
C26_StepEvaluatesOnce ==
    [][ last'.op = "agent_step" =>
            IF HasProfile(variables) /\ FirstStepOf(last'.principle)
            THEN /\ last'.ret.kind # None
                 /\ DOMAIN variables' = DOMAIN variables
                        \cup {EvaluationKey(last'.principle), CompleteKey(last'.principle)}
                 /\ variables'[CompleteKey(last'.principle)] = TRUE
                 /\ variables'[EvaluationKey(last'.principle)].principle = last'.principle
                 /\ \A key \in DOMAIN variables : variables'[key] = variables[key]
            ELSE /\ last'.ret.kind = None
                 /\ variables' = variables ]_vars

\* the fairness agent has stepped again after its evaluation was stored and
\* has returned None
C26_Witness ==
    /\ last.op = "agent_step"
    /\ last.principle = "fairness"
    /\ last.ret.kind = None
    /\ HasProfile(variables)
    /\ get_variable(variables, CompleteKey("fairness"), FALSE)
    /\ EvaluationKey("fairness") \in DOMAIN variables


(***************************************************************************)
(* Two runs of _verify_checkpoints on the same LifecycleStatus, without    *)
(* serialization.  A run reads the status, verifies the checkpoints one by *)
(* one in place (the objects are shared between the runs) and then writes  *)
(* ready_for_next_phase; the caller changes the store in between.  The     *)
(* frame of the two runs is kept in last: pc[run] is "idle", "loop" or     *)
(* "returned"; verified[run] is the number of checkpoints the run has      *)
(* verified; alone[run] tells that nothing else wrote while the run was    *)
(* under way; stores is the set of store contents the caller established.  *)
(***************************************************************************)
Runs == {1, 2}

\* the truthy keys of the store among those the current phase reads
Supplied(vs) == {key \in CurrentKeys : get_variable(vs, key, FALSE)}

InitInterleaved ==
    /\ session_ops = 0
    /\ aia_current_section = 0
    /\ store_ops = 0
    /\ transitions = 0
    /\ py_compensated_sum = FALSE
    /\ profile \in {[TestProfile EXCEPT !.current_phase = phase] : phase \in Phases}
    /\ variables = [ system_profile |-> TRUE,
                     lifecycle_status |-> _initialize_lifecycle_status(profile) ]
    /\ last = [ op |-> "verify_checkpoints",
                pc |-> [run \in Runs |-> "idle"],
                verified |-> [run \in Runs |-> 0],
                alone |-> [run \in Runs |-> TRUE],
                stores |-> {{}} ]

UnderWay(run) == last.pc[run] = "loop"

\* a write by the caller, or by the run writer, disturbs every other run
\* that is under way
Disturbed(writer) ==
    [run \in Runs |-> last.alone[run] /\ (run = writer \/ ~UnderWay(run))]

\* the caller supplies or clears one key of the store between two steps
InterleavedSetStore(key, value) ==
    /\ store_ops < MaxStoreOps
    /\ key \in CurrentKeys
    /\ value \/ get_variable(variables, key, FALSE)
    /\ variables' = set_variable(variables, key, value)
    /\ store_ops' = store_ops + 1
    /\ last' = [ last EXCEPT !.alone = Disturbed(0),
                             !.stores = @ \cup {Supplied(variables')} ]
    /\ UNCHANGED <<profile, session_ops, py_compensated_sum, aia_current_section, transitions>>

\* the caller supplies every artifact and all the evidence of one checkpoint
InterleavedSupplyCheckpoint(i) ==
    /\ store_ops < MaxStoreOps
    /\ i \in 1..Len(CurrentCheckpoints)
    /\ variables' = WithKeys(variables, KeysOf(CurrentCheckpoints[i]))
    /\ store_ops' = store_ops + 1
    /\ last' = [ last EXCEPT !.alone = Disturbed(0),
                             !.stores = @ \cup {Supplied(variables')} ]
    /\ UNCHANGED <<profile, session_ops, py_compensated_sum, aia_current_section, transitions>>

\* lifecycle_status = context.get_variable("lifecycle_status")
VerifyBegin(run) ==
    /\ last.pc[run] = "idle"
    /\ last' = [ last EXCEPT !.pc[run] = "loop",
                             !.alone[run] = \A other \in Runs \ {run} : ~UnderWay(other) ]
    /\ UNCHANGED <<profile, variables, session_ops, py_compensated_sum, aia_current_section,
                   store_ops, transitions>>

\* one turn of the loop: verified = await self._verify_single_checkpoint(...)
VerifyCheckpoint(run) ==
    /\ UnderWay(run)
    /\ last.verified[run] < Len(variables["lifecycle_status"].current_phase_checkpoints)
    /\ variables' =
           [ variables EXCEPT
               !["lifecycle_status"].current_phase_checkpoints[last.verified[run] + 1] =
                   _verify_single_checkpoint(@, variables) ]
    /\ last' = [ last EXCEPT !.verified[run] = @ + 1, !.alone = Disturbed(run) ]
    /\ UNCHANGED <<profile, session_ops, py_compensated_sum, aia_current_section,
                   store_ops, transitions>>

\* a write of the flag that takes the run's checkpoints for passed
ready_written_blindly(lifecycle_status) ==
    [ lifecycle_status EXCEPT !.ready_for_next_phase = TRUE ]

\* lifecycle_status.ready_for_next_phase = all(cp.passed for cp in verified_checkpoints)
ready_written(lifecycle_status) ==
    [ lifecycle_status EXCEPT
        !.ready_for_next_phase =
            \A i \in 1..Len(lifecycle_status.current_phase_checkpoints) :
                lifecycle_status.current_phase_checkpoints[i].passed ]

\* the end of the run: the list and the flag are written, the status stored
VerifyReturn(run) ==
    /\ UnderWay(run)
    /\ last.verified[run] = Len(variables["lifecycle_status"].current_phase_checkpoints)
    /\ variables' = set_variable(variables, "lifecycle_status",
                                 ready_written(variables["lifecycle_status"]))
    /\ last' = [ last EXCEPT !.pc[run] = "returned", !.alone = Disturbed(run) ]
    /\ UNCHANGED <<profile, session_ops, py_compensated_sum, aia_current_section,
                   store_ops, transitions>>

NextInterleaved ==
    \/ \E key \in CurrentKeys : \E value \in BOOLEAN : InterleavedSetStore(key, value)
    \/ \E i \in 1..2 : InterleavedSupplyCheckpoint(i)
    \/ \E run \in Runs : VerifyBegin(run)
    \/ \E run \in Runs : VerifyCheckpoint(run)
    \/ \E run \in Runs : VerifyReturn(run)

SpecInterleaved == InitInterleaved /\ [][NextInterleaved]_vars

\* ---------------------------------------------------------------------------
\* Properties of unserialized checkpoint verification
\* ---------------------------------------------------------------------------

\* <<passed of every checkpoint, ready_for_next_phase>>
Flags(lifecycle_status) ==
    << [ i \in 1..Len(lifecycle_status.current_phase_checkpoints) |->
           lifecycle_status.current_phase_checkpoints[i].passed ],
       lifecycle_status.ready_for_next_phase >>

\* the flags a whole verification leaves when the store holds these keys
SerialFlags(keys) ==
    Flags(_verify_checkpoints(profile, WithKeys([system_profile |-> TRUE], keys))
              .vs["lifecycle_status"])

\* ready_for_next_phase is set although a checkpoint has passed = false
Torn ==
    /\ variables["lifecycle_status"].ready_for_next_phase
    /\ IncompleteIndexes(variables["lifecycle_status"]) # {}

\* C27: checkpoint verification is a read-then-write that is not atomic.  A
\* run that nothing else wrote into returns the flags of a whole
\* verification under the store, and once no run is under way
\* ready_for_next_phase says whether every checkpoint passed; but while a
\* run is under way the flag and the checkpoints may disagree, and two
\* interleaved runs can end with flags that no whole verification under any
\* of the caller's stores gives (the witness).
C27_VerificationIsNotAtomic ==
    /\ [](Torn => \E run \in Runs : UnderWay(run))
    /\ []((\A run \in Runs : ~UnderWay(run)) =>
             (variables["lifecycle_status"].ready_for_next_phase
                  <=> IncompleteIndexes(variables["lifecycle_status"]) = {}))
    /\ [][ \A run \in Runs :
               UnderWay(run) /\ last'.pc[run] = "returned" /\ last'.alone[run] =>
                   Flags(variables'["lifecycle_status"]) = SerialFlags(Supplied(variables)) ]_vars

\* both runs have returned after interleaving while the caller changed the
\* store, and the final flags are those of no serial execution
C27_Witness ==
    /\ \A run \in Runs : last.pc[run] = "returned" /\ ~last.alone[run]
    /\ \A keys \in last.stores : Flags(variables["lifecycle_status"]) # SerialFlags(keys)

\* one run has returned with the flag set and the other, interleaved with
\* it, has since failed a checkpoint
TornAfterReturn ==
    /\ Torn
    /\ \E run \in Runs : last.pc[run] = "returned" /\ ~last.alone[run]


\* ---------------------------------------------------------------------------
\* The ready flag of the stored lifecycle status
\* ---------------------------------------------------------------------------

\* C28: in every state of the stored LifecycleStatus reached through the
\* lifecycle agent's operations, ready_for_next_phase is true if and only if
\* every checkpoint of the current phase has passed.
C28_ReadyIffAllPassed ==
    HasStatus =>
        (variables["lifecycle_status"].ready_for_next_phase
             <=> IncompleteIndexes(variables["lifecycle_status"]) = {})


\* ---------------------------------------------------------------------------
\* Profiles that cannot be approved
\* ---------------------------------------------------------------------------

\* the report of an AIA run that included the principle evaluations:
\* RAIRunner.run_aia with evaluations, or the orchestrator's full assessment
AssessedReports ==
    (IF last.op = "run_aia"
     THEN IF last.include_principle_evaluations THEN {last.ret} ELSE {}
     ELSE {})
        \cup (IF last.op = "process_query"
              THEN IF last.ret.kind = "rai_assessment_complete"
                   THEN {variables["aia_report"]} ELSE {}
              ELSE {})

\* alignment check 3 or accountability check 3 raises a critical finding
Unapprovable(system_profile) ==
    \/ system_profile.system_type = "autonomous"
    \/ system_profile.is_high_risk_eu_ai_act /\ system_profile.applicable_regulations = <<>>

\* C29: for a profile that is autonomous, or high-risk under the EU AI Act
\* without applicable regulations, an AIA run that includes the principle
\* evaluations yields do_not_proceed with no conditions for approval,
\* whatever the other fields of the profile are.
C29_CriticalProfilesDoNotProceed ==
    Unapprovable(profile) =>
        \A report \in AssessedReports :
            /\ report.kind = "AIAReport"
            /\ report.overall_recommendation = "do_not_proceed"
            /\ report.conditions_for_approval = <<>>

\* run_aia has assessed an autonomous system none of whose scores is below
\* 0.3, and the report says do_not_proceed
C29_Witness ==
    /\ last.op = "run_aia"
    /\ profile.system_type = "autonomous"
    /\ ~(profile.is_high_risk_eu_ai_act /\ profile.applicable_regulations = <<>>)
    /\ AssessedReports # {}
    /\ \A report \in AssessedReports :
           /\ report.overall_recommendation = "do_not_proceed"
           /\ \A i \in 1..Len(report.principle_evaluations) :
                  FGe(report.principle_evaluations[i].score, Dec(30))


(***************************************************************************)
(* The evaluators on profiles in which several checks fire at once: the    *)
(* documented profile with any subset of the fields one evaluator reads    *)
(* replaced by values that fire its checks.                                *)
(***************************************************************************)
limitations_without_fairness ==
    CHOOSE k \in FieldValues.known_limitations :
        k # <<>> /\ ~AnyItemContains(k, fairness_terms)

training_data_sensitive ==
    CHOOSE d \in FieldValues.training_data_description :
        d # <<>> /\ ContainsAny(Lower(d), sensitive_types)

input_data_sensitive ==
    CHOOSE t \in FieldValues.input_data_types : AnyItemContains(t, sensitive_types)

regulations_without_privacy ==
    CHOOSE r \in FieldValues.applicable_regulations :
        r # <<>> /\ ~AnyItemContains(r, privacy_regs)

\* per evaluator, field values that fire its checks
Stressors ==
    << [ owner |-> <<>>, operators |-> <<>>, is_high_risk_eu_ai_act |-> TRUE,
         applicable_regulations |-> <<>>, affected_populations |-> <<>>,
         known_limitations |-> <<>>, developers |-> <<>> ],
       [ description |-> desc_one_char, model_architecture |-> <<>>,
         training_data_description |-> <<>>, input_data_types |-> <<>>,
         use_cases |-> <<>>, prohibited_uses |-> <<>>, version |-> DefaultVersion ],
       [ affected_populations |-> <<>>, training_data_description |-> <<>>,
         system_type |-> "nlp", risk_level |-> "low",
         known_limitations |-> limitations_without_fairness,
         is_high_risk_eu_ai_act |-> TRUE,
         industry_sector |-> <<"H", "e", "a", "l", "t", "h", "c", "a", "r", "e">> ],
       [ applicable_regulations |-> regulations_without_privacy,
         input_data_types |-> input_data_sensitive, risk_level |-> "low",
         training_data_description |-> training_data_sensitive,
         is_high_risk_eu_ai_act |-> TRUE, system_type |-> "generative",
         industry_sector |-> <<"f", "i", "n", "a", "n", "c", "e">> ],
       [ known_limitations |-> <<>>, current_phase |-> "deployment",
         version |-> DefaultVersion, system_type |-> "autonomous",
         is_high_risk_eu_ai_act |-> TRUE, deployment_date |-> TRUE,
         industry_sector |-> <<"e", "n", "e", "r", "g", "y">> ],
       [ prohibited_uses |-> <<>>, affected_populations |-> <<>>,
         system_type |-> "autonomous", is_high_risk_eu_ai_act |-> TRUE,
         industry_sector |-> <<"c", "r", "e", "d", "i", "t">>, use_cases |-> <<>> ],
       [ prohibited_uses |-> <<>>, affected_populations |-> <<>>,
         system_type |-> "generative", is_high_risk_eu_ai_act |-> TRUE,
         industry_sector |-> <<"c", "r", "e", "d", "i", "t">>, use_cases |-> <<>> ],
       [ prohibited_uses |-> <<>>, affected_populations |-> <<>>,
         system_type |-> "classification", description |-> desc_decision,
         is_high_risk_eu_ai_act |-> TRUE,
         industry_sector |-> <<"c", "r", "e", "d", "i", "t">>, use_cases |-> <<>> ] >>

\* the documented profile with the fields in replaced taken from stressor
Stressed(stressor, replaced) ==
    [ field \in DOMAIN DocumentedProfile |->
        IF field \in replaced THEN stressor[field] ELSE DocumentedProfile[field] ]

StressProfiles ==
    UNION { { Stressed(Stressors[k], replaced) : replaced \in SUBSET DOMAIN Stressors[k] } :
            k \in 1..Len(Stressors) }

\* a session has been opened on the profile
InitStress ==
    /\ session_ops = 0
    /\ aia_current_section = 0
    /\ store_ops = 0
    /\ transitions = 0
    /\ py_compensated_sum = FALSE
    /\ profile \in StressProfiles
    /\ variables = [system_profile |-> TRUE]
    /\ last = [op |-> "interactive_session"]

NextStress ==
    \/ \E value \in BOOLEAN : SetFlag("monitoring_configured", value)
    \/ \E principle \in PrincipleSet : \E llm \in LLMOutcomes : AgentEvaluate(principle, llm)

SpecStress == InitStress /\ [][NextStress]_vars

\* ---------------------------------------------------------------------------
\* The lowest scores
\* ---------------------------------------------------------------------------

\* the score of the evaluator of a principle before max(0.0, min(1.0, score))
Unclamped(principle) == ScoreAfter(ChecksOf(principle), Len(ChecksOf(principle)))

\* the lowest unclamped scores, in hundredths, when the deductions of the
\* checks that can fire together are added as decimals
DecimalMinimum(principle) ==
    CASE principle = "accountability" -> Dec(10)
      [] principle = "transparency"   -> Dec(25)
      [] principle = "fairness"       -> Dec(15)
      [] principle = "security"       -> Dec(20)
      [] principle = "robustness"     -> Dec(20)
      [] principle = "alignment"      -> Dec(15)

=============================================================================
